---- MODULE Spec2Model ----
(***************************************************************************)
(* SentinelAI monitoring backend: scheduler ticks, the pipeline            *)
(* orchestrator, the HTTP executor, the anomaly classifier's cost gate     *)
(* and the scheduler's job synchronisation.                                *)
(*                                                                         *)
(* The module holds several specifications over one set of variables:      *)
(*   Spec      scheduler ticks and on-demand runs against the store        *)
(*   SpecSync  MonitorScheduler.sync_jobs against the endpoint repository  *)
(*   SpecExec  ApiRunner.execute, one call                                 *)
(*   SpecGate  AnomalyEngine.analyse, one call                             *)
(*   SpecRead  the read routes of the HTTP API, per tenant                 *)
(*   SpecAlert maybe_alert and WebhookClient.send, one call                *)
(*   SpecScore RiskEngine.score, one call                                  *)
(*   SpecFlow  classifier, risk score and alert payload of one run         *)
(*   SpecDiff  compute_diff, one call                                      *)
(*   SpecPerf  PerformanceTracker.analyse, one call                        *)
(*   SpecLife  the lifespan of the process                                 *)
(*   SpecSched the methods of MonitorScheduler in any order                *)
(*   SpecRun   executions of one endpoint, each persisted as a Run         *)
(*   SpecRule    the rule-based fallback of the classifier, one call       *)
(*   SpecHist    the history handed to the performance analyser            *)
(*   SpecCalls   concurrent calls of LLMClient.analyse                     *)
(*   SpecStop    shutdown against ticks and a suspended sync_jobs          *)
(*   SpecLogin   AuthService.login of one user, concurrent requests        *)
(*   SpecRefresh AuthService.refresh of one user, concurrent requests      *)
(*   SpecRate    the failure rate read after the run is stored             *)
(* Each specification leaves the variables of the others unchanged.        *)
(***************************************************************************)
EXTENDS Integers, Sequences, FiniteSets, TLC

\* ------------------------------------------------------------------------
\* Bounds of the model
\* ------------------------------------------------------------------------
\* endpoints known to the tick specification (one scheduler job each)
NumEndpoints == 2
\* concurrent on-demand HTTP requests (POST /monitor/run/{id})
MaxRequests == 1
\* pipeline invocations per behaviour (each draws a fresh run id)
MaxRuns == 2
\* organisations (tenants)
NumTenants == 2

\* ------------------------------------------------------------------------
\* Program constants
\* ------------------------------------------------------------------------
SCHEDULER_MAX_CONCURRENT == 5
max_instances == 1
DEFAULT_MAX_RETRIES == 2
DEFAULT_RETRY_BACKOFF_SECONDS == 1
SPIKE_THRESHOLD_PERCENT == 50
CRITICAL_SPIKE_THRESHOLD_PERCENT == 150
MAX_RETRIES == 3
RETRY_BASE_DELAY_S == 1

None == "None"
NoTenant == 0
NoEndpoint == 0

EndpointIds == 1..NumEndpoints
Tenants == 1..NumTenants
RunIds == 1..MaxRuns
JobTasks == EndpointIds
ReqTasks == (NumEndpoints + 1)..(NumEndpoints + MaxRequests)
Tasks == JobTasks \cup ReqTasks

\* values SCHEDULER_MAX_CONCURRENT can take from the environment
MaxConcurrentSettings == {1, 2, SCHEDULER_MAX_CONCURRENT}

\* organization_id of an endpoint row
OwnerOf(e) == ((e - 1) % NumTenants) + 1

\* exception classes raised inside a tick
ExceptionClasses == {"ValueError", "OSError", "HTTPException", "SQLAlchemyError", "RuntimeError"}

VARIABLES
    \* ---- store and scheduler (Spec, SpecSync) ----
    repo,           \* endpoint table: endpoint id -> monitoring_interval_seconds
    jobs,           \* APScheduler job store: job id -> interval of its trigger
    db,             \* committed Run / Anomaly / RiskScore rows
    \* ---- pipeline tasks (Spec) ----
    pc,             \* position of each task (job tick or on-demand request)
    call,           \* arguments, run id and classifier verdict of the task's pipeline invocation
    session,        \* rows flushed in the task's own session, not yet committed
    nextRun,        \* next fresh run id
    dispatched,     \* run ids handed to maybe_alert
    aborted,        \* run ids whose pipeline ended without a commit
    lastTick,       \* how the last finished run_endpoint call ended
    maxConcurrent,  \* settings.SCHEDULER_MAX_CONCURRENT
    \* ---- endpoint CRUD and sync_jobs (SpecSync) ----
    deleted,        \* ids of deleted endpoints (an id is never issued twice)
    syncPc,         \* "idle", or "read": sync_jobs holds the endpoint list it read
    syncSeen,       \* the endpoint list sync_jobs read
    returned,       \* value returned by the most recent operation
    quiet,          \* a sync has read the repository, which has not changed since
    inRow,          \* the sync in progress began with quiet true
    \* ---- ApiRunner.execute (SpecExec) ----
    client,         \* ApiRunner._client is set (startup() was called)
    cfg,            \* the RunnerConfig of the call
    expected_status,\* expected_status of the call
    execPc,         \* "idle", "loop" (inside execute) or "done" (returned)
    attempt,        \* loop variable of execute
    last_result,    \* local last_result of execute
    attempts,       \* results of the attempts made, in order
    sleeps,         \* backoff sleeps taken, in order
    result,         \* what execute returned
    \* ---- AnomalyEngine.analyse and the LLM gateway (SpecGate) ----
    llm_available,  \* LLMClient._client is set
    metrics,        \* LLMClient.metrics
    args,           \* arguments of the analyse call
    gatePc,         \* "idle", "gateway" (awaiting LLMClient.analyse), "done" or "raised"
    llm_attempt,    \* loop variable of LLMClient.analyse
    prompt_built,   \* build_user_prompt was called
    last_error,     \* local last_error of LLMClient.analyse
    llm_sleeps,     \* backoff sleeps of LLMClient.analyse, in order
    verdict,        \* the AnomalyResult analyse returned
    anomaly_record, \* the Anomaly row execute_endpoint created from it
    \* ---- read operations of the HTTP API (SpecRead) ----
    readout,        \* the last read: who asked, and whose data the response held
    \* ---- maybe_alert and the webhook client (SpecAlert) ----
    available,      \* webhook_client.available: WebhookClient._client is set
    ALERT_MIN_RISK_LEVEL, \* settings.ALERT_MIN_RISK_LEVEL
    risk_level,     \* pipeline.risk.risk_level of the call
    alertPc,        \* "idle", "send" (awaiting webhook_client.send) or "done"
    posts,          \* outcomes of the POST requests made, in order
    summary,        \* the dict maybe_alert returned
    \* ---- RiskEngine.score (SpecScore) ----
    signals,        \* the keyword arguments of the score call
    risk,           \* the RiskResult score returned
    \* ---- classifier, scorer and alert payload of one run (SpecFlow) ----
    payload,        \* the dict build_alert_payload returned
    \* ---- compute_diff (SpecDiff) ----
    expected_schema, \* the expected schema, a JSON object
    actual_body,  \* the response body, a JSON object
    diff,           \* the SchemaDiffResult compute_diff returned
    \* ---- PerformanceTracker.analyse (SpecPerf) ----
    historical_times, \* recent response times, newest first
    current_time_ms,  \* response time of the current run
    snapshot,         \* the PerformanceResult analyse returned
    \* ---- process lifespan and MonitorScheduler (SpecLife, SpecSched) ----
    lifePc,           \* position in lifespan(); 0 outside a lifespan
    started_clients,  \* clients whose startup() has returned
    stopped_clients,  \* clients whose shutdown() has returned
    open_clients,     \* clients whose _client is not None
    configured,       \* clients whose settings allow a client to be created
    SCHEDULER_ENABLED, \* settings.SCHEDULER_ENABLED
    scheduler,        \* MonitorScheduler._scheduler: "None" or "running"
    scheduled,        \* endpoint ids with a job in the scheduler
    endpoint_rows,    \* endpoint ids in the database
    sync_result,      \* status of the summary the last sync_jobs() returned
    \* ---- executions of one endpoint, persisted (SpecRun) ----
    run_rows,         \* the ApiRun rows of the endpoint, oldest first
    executions,       \* per execution, the results of its attempts
    \* ---- the history read of execute_endpoint (SpecHist) ----
    historical, \* the list get_recent_times returned, as handed to analyse
    \* ---- concurrent LLMClient.analyse calls (SpecCalls) ----
    calls, \* per caller, where its LLMClient.analyse call stands
    \* ---- ticks in flight and a suspended sync_jobs (SpecStop) ----
    ticking, \* endpoints whose job tick is in flight
    sync_call, \* the sync_jobs call: where it stands and the endpoints it read
    shutdowns, \* MonitorScheduler.shutdown calls that have returned
    \* ---- login and refresh of one user (SpecLogin, SpecRefresh) ----
    synchronize_session, \* the session applies an UPDATE to the objects it holds
    user_row, \* the users row: failed_login_attempts and locked_until
    logins, \* per request session, where its login call stands
    refresh_tokens, \* the refresh_tokens rows of the user, in order of creation
    refreshes, \* per request session, where its refresh call stands
    \* ---- the failure rate of a run (SpecRate) ----
    handoff \* how far the run is, the failure rate read and the values handed on

storeVars == <<repo, jobs, db>>
pipeVars == <<pc, call, session, nextRun, dispatched, aborted, lastTick, maxConcurrent>>
syncVars == <<deleted, syncPc, syncSeen, returned, quiet, inRow>>
execVars == <<client, cfg, expected_status, execPc, attempt, last_result, attempts, sleeps, result>>
gateVars == <<llm_available, metrics, args, gatePc, llm_attempt, prompt_built,
              last_error, llm_sleeps, verdict, anomaly_record>>

readVars == <<readout>>
alertVars == <<available, ALERT_MIN_RISK_LEVEL, risk_level, alertPc, posts, summary>>

\* the variables of the specifications of single operations
scoreVars == <<signals, risk>>
flowVars == <<payload>>
diffVars == <<expected_schema, actual_body, diff>>
perfVars == <<historical_times, current_time_ms, snapshot>>
clientVars == <<started_clients, stopped_clients, open_clients, configured>>
schedVars == <<SCHEDULER_ENABLED, scheduler, scheduled, endpoint_rows, sync_result>>
lifeVars == <<lifePc, clientVars, schedVars>>
runVars == <<run_rows, executions>>
histVars == <<historical>>
callsVars == <<calls>>
stopVars == <<ticking, sync_call, shutdowns>>
authVars == <<synchronize_session, user_row, logins, refresh_tokens, refreshes>>
rateVars == <<handoff>>
afterRunVars == <<histVars, callsVars, stopVars, authVars, rateVars>>
afterLifeVars == <<runVars, afterRunVars>>

\* the variables of the specifications that follow SpecScore
afterPerfVars == <<lifeVars, afterLifeVars>>
afterDiffVars == <<perfVars, afterPerfVars>>
afterFlowVars == <<diffVars, afterDiffVars>>
laterVars == <<flowVars, afterFlowVars>>
restVars == <<readVars, alertVars, scoreVars, laterVars>>

\* what the tick specification leaves alone
nonPipeVars == <<syncVars, execVars, gateVars, restVars>>

\* what the sync specification leaves alone
nonSyncVars == <<pipeVars, execVars, gateVars, restVars>>

\* what the executor specification leaves alone
nonExecVars == <<storeVars, pipeVars, syncVars, gateVars, restVars>>

\* what the classifier specification leaves alone
nonGateVars == <<storeVars, pipeVars, syncVars, execVars, restVars>>

\* what the read operations leave alone
nonReadVars == <<storeVars, pipeVars, syncVars, execVars, gateVars, alertVars, scoreVars, laterVars>>

\* what maybe_alert leaves alone
nonAlertVars == <<storeVars, pipeVars, syncVars, execVars, gateVars, readVars, scoreVars, laterVars>>

\* what the risk scorer leaves alone
nonScoreVars == <<storeVars, pipeVars, syncVars, execVars, gateVars, readVars, alertVars, laterVars>>

\* the variables that belong to Spec .. SpecScore
earlierVars == <<storeVars, pipeVars, syncVars, execVars, gateVars, readVars, alertVars, scoreVars>>

\* the variables that belong to Spec .. SpecRun
uptoRunVars == <<earlierVars, flowVars, diffVars, perfVars, lifeVars, runVars>>

\* what the history read leaves alone
nonHistVars == <<uptoRunVars, callsVars, stopVars, authVars, rateVars>>
otherHistVars == <<callsVars, stopVars, authVars, rateVars>>

\* what the concurrent gateway calls leaves alone
nonCallsVars == <<uptoRunVars, histVars, stopVars, authVars, rateVars>>
otherCallsVars == <<histVars, stopVars, authVars, rateVars>>

\* what the shutdown specification leaves alone
nonStopVars == <<uptoRunVars, histVars, callsVars, authVars, rateVars>>
otherStopVars == <<histVars, callsVars, authVars, rateVars>>

\* what authentication leaves alone
nonAuthVars == <<uptoRunVars, histVars, callsVars, stopVars, rateVars>>
otherAuthVars == <<histVars, callsVars, stopVars, rateVars>>

\* what the failure rate leaves alone
nonRateVars == <<uptoRunVars, histVars, callsVars, stopVars, authVars>>
otherRateVars == <<histVars, callsVars, stopVars, authVars>>

vars == <<repo, jobs, db, pc, call, session, nextRun, dispatched, aborted, lastTick, maxConcurrent,
          deleted, syncPc, syncSeen, returned, quiet, inRow,
          client, cfg, expected_status, execPc, attempt, last_result, attempts, sleeps, result,
          llm_available, metrics, args, gatePc, llm_attempt, prompt_built,
          last_error, llm_sleeps, verdict, anomaly_record,
          readout,
          available, ALERT_MIN_RISK_LEVEL, risk_level, alertPc, posts, summary,
          signals, risk,
          payload,
          expected_schema, actual_body, diff,
          historical_times, current_time_ms, snapshot,
          lifePc, started_clients, stopped_clients, open_clients, configured,
          SCHEDULER_ENABLED, scheduler, scheduled, endpoint_rows, sync_result,
          run_rows, executions,
          historical,
          calls,
          ticking, sync_call, shutdowns,
          synchronize_session, user_row, logins, refresh_tokens, refreshes,
          handoff>>

\* ------------------------------------------------------------------------
\* Job triggers
\* ------------------------------------------------------------------------
SecondsPerDay == 86400

\* the interval trigger keeps datetime.timedelta(seconds = n): days and seconds
timedelta(n) == [days |-> n \div SecondsPerDay, seconds |-> n % SecondsPerDay]

\* int(trigger.interval.total_seconds())
total_seconds(td) == td.days * SecondsPerDay + td.seconds

\* f"monitor_{ep.id}"
job_id(e) == <<"monitor_", e>>

\* the endpoint id in the job's kwargs
endpoint_of(j) == j[2]

NoSnapshot == <<>>
NoReturn == [status |-> "none"]

\* no sync_jobs call in progress and none made yet
SyncIdle ==
    /\ syncPc = "idle"
    /\ syncSeen = NoSnapshot
    /\ returned = NoReturn
    /\ quiet = FALSE
    /\ inRow = FALSE

\* ------------------------------------------------------------------------
\* Results of the HTTP executor
\* ------------------------------------------------------------------------
\* Python's None where a RunResult is expected
PyNone == [none |-> TRUE]

\* status_code = None and response_time_ms = None
NoStatus == 0
NoTime == 0

\* the dataclass RunResult
RunResult(status_code, response_time_ms, response_body, is_success, error_message) ==
    [status_code |-> status_code, response_time_ms |-> response_time_ms,
     response_body |-> response_body, is_success |-> is_success,
     error_message |-> error_message]

\* the dataclass RunnerConfig
RunnerConfig(max_retries) ==
    [max_retries |-> max_retries, retry_backoff_seconds |-> DEFAULT_RETRY_BACKOFF_SECONDS]

\* config = None
NoConfig == [max_retries |-> DEFAULT_MAX_RETRIES, retry_backoff_seconds |-> DEFAULT_RETRY_BACKOFF_SECONDS,
             absent |-> TRUE]

\* the executor as the lifespan leaves it: started, no call made
ExecIdle ==
    /\ client = TRUE
    /\ cfg = NoConfig
    /\ expected_status = 200
    /\ execPc = "idle"
    /\ attempt = 0
    /\ last_result = PyNone
    /\ attempts = <<>>
    /\ sleeps = <<>>
    /\ result = PyNone

\* ------------------------------------------------------------------------
\* Results of the classifier
\* ------------------------------------------------------------------------
\* the dataclass AnomalyResult; confidence is kept in hundredths (1.0 = 100)
AnomalyResult(detected, severity, confidence, skipped, ai_called, used_fallback) ==
    [anomaly_detected |-> detected, severity_score |-> severity,
     confidence |-> confidence, skipped_reason |-> skipped,
     ai_called |-> ai_called, used_fallback |-> used_fallback]

\* the sentinel NO_ANOMALY
NO_ANOMALY == AnomalyResult(FALSE, 0, 100, "All signals healthy", FALSE, FALSE)

\* no AnomalyResult yet
NoVerdict == [none |-> TRUE]

\* no analyse call yet
NoArgs == [none |-> TRUE]

\* last_error = None
NoError == [text |-> <<>>, transient |-> FALSE]

\* the request sessions that call AuthService at once
NumSessions == 2
Sessions == 1..NumSessions

\* a users row with no failed attempt and no lock (locked_until NULL)
NewUser == [failed_login_attempts |-> 0, locked_until |-> "None"]

\* a session that is not inside login, or refresh, and has not been
NoLogin == [at |-> "idle", loaded |-> 0, correct |-> FALSE]
NoRefresh == [at |-> "idle", stored |-> 0]

\* the coroutines that call LLMClient.analyse on the one module-level client
NumCallers == 3
Callers == 1..NumCallers

\* a caller that is not inside LLMClient.analyse and has not been
NotCalling == [at |-> "idle", attempt |-> 0]

\* LLMMetrics() as constructed
ZeroMetrics ==
    [total_calls |-> 0, successful_calls |-> 0, failed_calls |-> 0,
     retried_calls |-> 0, total_tokens_used |-> 0]

\* no Anomaly row created
NoRecord == [none |-> TRUE]

\* the classifier and the gateway as the lifespan leaves them
GateIdle ==
    /\ llm_available = FALSE
    /\ metrics = ZeroMetrics
    /\ args = NoArgs
    /\ gatePc = "idle"
    /\ llm_attempt = 0
    /\ prompt_built = FALSE
    /\ last_error = NoError
    /\ llm_sleeps = <<>>
    /\ verdict = NoVerdict
    /\ anomaly_record = NoRecord

\* ------------------------------------------------------------------------
\* Rows and sessions
\* ------------------------------------------------------------------------
Row(kind, run, e) == [kind |-> kind, run |-> run, endpoint |-> e]
Rows == [kind : {"run", "anomaly", "risk"}, run : RunIds, endpoint : EndpointIds]

NoCall == [endpoint |-> NoEndpoint, tenant |-> NoTenant, run |-> 0, detected |-> FALSE]
NoTick == [stage |-> "none", propagated |-> FALSE]

\* ApiEndpointRepository.get_by_id: the endpoint, or NoEndpoint for Python's None
get_by_id(e, tenant) ==
    IF e \notin DOMAIN repo THEN NoEndpoint
    ELSE IF tenant # NoTenant /\ OwnerOf(e) # tenant THEN NoEndpoint
    ELSE e

\* the outer handler of run_endpoint: "except Exception"
OuterHandlerCatchesStorageOnly(exc) == exc \in {"SQLAlchemyError", "OSError"}
OuterHandlerCatches(exc) == exc \in ExceptionClasses

\* the handler around uuid.UUID(endpoint_id): "except ValueError"
IdHandlerCatches(exc) == exc = "ValueError"

\* the handler around maybe_alert: "except Exception"
AlertHandlerCatches(exc) == exc \in ExceptionClasses

\* record of a finished tick; an exception no handler catches propagates
TickEnded(stage, exc, caught) ==
    [stage |-> stage, propagated |-> (exc # None /\ ~caught)]

\* ------------------------------------------------------------------------
\* Spec: scheduler ticks (jobs.run_endpoint) and on-demand runs
\* (monitor.trigger_run), both driving RunnerService.execute_endpoint
\* ------------------------------------------------------------------------

\* rows another session can read after a repository create(): add + flush
\* write inside the caller's transaction and publish nothing
VisibleAfterFlushAutocommit(rows) == db \cup rows
VisibleAfterFlush(rows) == db

\* session.commit(): the session's rows become visible together
VisibleAfterCommit(rows) == db \cup rows

\* the tick may call maybe_alert once "await session.commit()" has returned
ReadyToAlertBeforeCommit(e) == pc[e] \in {"scored", "committed"}
ReadyToAlert(e) == pc[e] = "committed"

\* instances of job monitor_<e> that are executing
RunningInstances(e) == IF pc[e] # "idle" THEN 1 ELSE 0

\* a pipeline execution between its HTTP attempt and its commit
InFlight(t) == pc[t] \in {"http", "stored", "scored"}

\* the task leaves the pipeline with an exception: its session is closed
\* without commit; a job tick hands the exception to the outer handler,
\* a request answers with an error
TaskFail(t, stage, exc) ==
    /\ pc' = [pc EXCEPT ![t] = "idle"]
    /\ call' = [call EXCEPT ![t] = NoCall]
    /\ session' = [session EXCEPT ![t] = {}]
    /\ aborted' = IF call[t] = NoCall THEN aborted ELSE aborted \cup {call[t].run}
    /\ lastTick' = IF t \in JobTasks
                   THEN TickEnded(stage, exc, OuterHandlerCatches(exc))
                   ELSE lastTick

\* run_endpoint called with a string that is no UUID
TickInvalidId ==
    /\ lastTick' = TickEnded("invalid_id", "ValueError", IdHandlerCatches("ValueError"))
    /\ UNCHANGED <<repo, jobs, db, pc, call, session, nextRun, dispatched, aborted, maxConcurrent, nonPipeVars>>

\* the scheduler fires job monitor_<e>; run_endpoint opens its session and
\* execute_endpoint loads the endpoint
TickStart(e) ==
    /\ job_id(e) \in DOMAIN jobs
    /\ RunningInstances(e) < max_instances
    /\ nextRun <= MaxRuns
    /\ \/ /\ get_by_id(e, NoTenant) # NoEndpoint
          /\ pc' = [pc EXCEPT ![e] = "http"]
          /\ call' = [call EXCEPT ![e] = [endpoint |-> e, tenant |-> NoTenant, run |-> nextRun, detected |-> FALSE]]
          /\ nextRun' = nextRun + 1
          /\ UNCHANGED <<session, aborted, lastTick>>
       \/ /\ get_by_id(e, NoTenant) = NoEndpoint
          /\ TaskFail(e, "not_found", "HTTPException")
          /\ UNCHANGED nextRun
       \/ /\ \E stage \in {"session", "lookup"} :
                TaskFail(e, stage, IF stage = "session" THEN "OSError" ELSE "SQLAlchemyError")
          /\ UNCHANGED nextRun
    /\ UNCHANGED <<repo, jobs, db, dispatched, maxConcurrent, nonPipeVars>>

\* POST /monitor/run/{endpoint_id} on behalf of a tenant
TriggerStart(t, e, tenant) ==
    /\ pc[t] = "idle"
    /\ nextRun <= MaxRuns
    /\ \/ /\ get_by_id(e, tenant) # NoEndpoint
          /\ pc' = [pc EXCEPT ![t] = "http"]
          /\ call' = [call EXCEPT ![t] = [endpoint |-> e, tenant |-> tenant, run |-> nextRun, detected |-> FALSE]]
          /\ nextRun' = nextRun + 1
          /\ UNCHANGED <<session, aborted, lastTick>>
       \/ /\ get_by_id(e, tenant) = NoEndpoint
          /\ TaskFail(t, "not_found", "HTTPException")
          /\ UNCHANGED nextRun
    /\ UNCHANGED <<repo, jobs, db, dispatched, maxConcurrent, nonPipeVars>>

\* the executor has returned; the Run is added and flushed
HttpDone(t) ==
    /\ pc[t] = "http"
    /\ \/ /\ pc' = [pc EXCEPT ![t] = "stored"]
          /\ session' = [session EXCEPT ![t] = {Row("run", call[t].run, call[t].endpoint)}]
          /\ db' = VisibleAfterFlush({Row("run", call[t].run, call[t].endpoint)})
          /\ UNCHANGED <<call, aborted, lastTick>>
       \/ /\ TaskFail(t, "pipeline", "SQLAlchemyError")
          /\ UNCHANGED db
    /\ UNCHANGED <<repo, jobs, nextRun, dispatched, maxConcurrent, nonPipeVars>>

\* the rows execute_endpoint creates after the classifier has returned: an
\* Anomaly row "if anomaly.anomaly_detected", and the RiskScore row
AnalysisRowsWithAnomaly(r, e, detected) == {Row("risk", r, e), Row("anomaly", r, e)}
AnalysisRows(r, e, detected) ==
    {Row("risk", r, e)} \cup (IF detected THEN {Row("anomaly", r, e)} ELSE {})

\* history reads, drift, classifier, Anomaly row when detected, risk score,
\* RiskScore row; execute_endpoint returns
Analyse(t) ==
    /\ pc[t] = "stored"
    /\ \/ \E detected \in BOOLEAN :
            LET rows == AnalysisRows(call[t].run, call[t].endpoint, detected)
            IN /\ pc' = [pc EXCEPT ![t] = "scored"]
               /\ call' = [call EXCEPT ![t].detected = detected]
               /\ session' = [session EXCEPT ![t] = session[t] \cup rows]
               /\ db' = VisibleAfterFlush(rows)
               /\ UNCHANGED <<aborted, lastTick>>
       \/ /\ \E exc \in {"SQLAlchemyError", "RuntimeError"} : TaskFail(t, "pipeline", exc)
          /\ UNCHANGED db
    /\ UNCHANGED <<repo, jobs, nextRun, dispatched, maxConcurrent, nonPipeVars>>

\* "await session.commit()" of the tick
Commit(e) ==
    /\ e \in JobTasks
    /\ pc[e] = "scored"
    /\ \/ /\ db' = VisibleAfterCommit(session[e])
          /\ session' = [session EXCEPT ![e] = {}]
          /\ pc' = [pc EXCEPT ![e] = "committed"]
          /\ UNCHANGED <<call, aborted, lastTick>>
       \/ /\ TaskFail(e, "commit", "SQLAlchemyError")
          /\ UNCHANGED db
    /\ UNCHANGED <<repo, jobs, nextRun, dispatched, maxConcurrent, nonPipeVars>>

\* the request's session dependency commits when the handler has returned
TriggerFinish(t) ==
    /\ t \in ReqTasks
    /\ pc[t] = "scored"
    /\ \/ /\ db' = VisibleAfterCommit(session[t])
          /\ session' = [session EXCEPT ![t] = {}]
          /\ pc' = [pc EXCEPT ![t] = "idle"]
          /\ call' = [call EXCEPT ![t] = NoCall]
          /\ UNCHANGED <<aborted, lastTick>>
       \/ /\ TaskFail(t, "commit", "SQLAlchemyError")
          /\ UNCHANGED db
    /\ UNCHANGED <<repo, jobs, nextRun, dispatched, maxConcurrent, nonPipeVars>>

\* maybe_alert and the end of the tick
Alert(e) ==
    /\ e \in JobTasks
    /\ ReadyToAlert(e)
    /\ dispatched' = dispatched \cup {call[e].run}
    /\ \E outcome \in {"skipped", "delivered", "not_delivered", "raised"} :
         lastTick' = IF outcome = "raised"
                     THEN TickEnded("alert", "RuntimeError", AlertHandlerCatches("RuntimeError"))
                     ELSE TickEnded(outcome, None, TRUE)
    /\ pc' = [pc EXCEPT ![e] = "idle"]
    /\ call' = [call EXCEPT ![e] = NoCall]
    /\ session' = [session EXCEPT ![e] = {}]
    /\ aborted' = IF pc[e] = "committed" THEN aborted ELSE aborted \cup {call[e].run}
    /\ UNCHANGED <<repo, jobs, db, nextRun, maxConcurrent, nonPipeVars>>

\* no read has been answered
NoReadout == [op |-> "none", tenant |-> NoTenant, owners |-> {}]

ReadIdle == readout = NoReadout

\* a webhook client that was never started and no alert considered
AlertIdle ==
    /\ available = FALSE
    /\ ALERT_MIN_RISK_LEVEL = "MEDIUM"
    /\ risk_level = "LOW"
    /\ alertPc = "idle"
    /\ posts = <<>>
    /\ summary = PyNone

\* risk = None
NoRisk == [none |-> TRUE]

\* the scorer has not been called
ScoreIdle == signals = NoArgs /\ risk = NoRisk

\* no alert payload built
NoPayload == [none |-> TRUE]

FlowIdle == payload = NoPayload

\* no schema comparison made
NoDiff == [none |-> TRUE]

DiffIdle == expected_schema = PyNone /\ actual_body = PyNone /\ diff = NoDiff

\* no analysis made
NotAnalysed == [none |-> TRUE]

PerfIdle == historical_times = <<>> /\ current_time_ms = 0 /\ snapshot = NotAnalysed

\* no client touched, the scheduler never started
NoClients ==
    /\ started_clients = {}
    /\ stopped_clients = {}
    /\ open_clients = {}

NoScheduler ==
    /\ scheduler = "None"
    /\ scheduled = {}
    /\ sync_result = "none"

LifeIdle ==
    /\ lifePc = 0
    /\ NoClients
    /\ configured = {}
    /\ NoScheduler
    /\ SCHEDULER_ENABLED = TRUE
    /\ endpoint_rows = {}

\* no execution persisted
RunIdle == run_rows = <<>> /\ executions = <<>>

\* no history fetched
HistIdle ==
    historical = [fetched |-> FALSE, times |-> <<>>]

\* no caller has called LLMClient.analyse
CallsIdle ==
    calls = [c \in Callers |-> NotCalling]

\* no tick in flight, no sync_jobs call and no shutdown made
StopIdle ==
    /\ ticking = {}
    /\ sync_call = [at |-> "idle", seen |-> {}]
    /\ shutdowns = 0

\* a user who never logged in, and no login or refresh call
AuthIdle ==
    /\ synchronize_session = FALSE
    /\ user_row = NewUser
    /\ logins = [s \in Sessions |-> NoLogin]
    /\ refresh_tokens = <<>>
    /\ refreshes = [s \in Sessions |-> NoRefresh]

\* no run whose failure rate is read
RateIdle ==
    handoff = [at |-> "idle", failure_rate |-> 0, classifier |-> 0, scorer |-> 0]

\* the specifications that follow SpecRun are at rest
TailIdle == HistIdle /\ CallsIdle /\ StopIdle /\ AuthIdle /\ RateIdle

\* the specifications that follow SpecScore are at rest
LaterIdle == FlowIdle /\ DiffIdle /\ PerfIdle /\ LifeIdle /\ RunIdle /\ TailIdle

\* no single operation is under way
RestIdle == ReadIdle /\ AlertIdle /\ ScoreIdle /\ LaterIdle

\* an empty database, an empty job store and no tick or request under way
PipeIdle ==
    /\ repo = <<>>
    /\ deleted = {}
    /\ jobs = <<>>
    /\ db = {}
    /\ pc = [t \in Tasks |-> "idle"]
    /\ call = [t \in Tasks |-> NoCall]
    /\ session = [t \in Tasks |-> {}]
    /\ nextRun = 1
    /\ dispatched = {}
    /\ aborted = {}
    /\ lastTick = NoTick
    /\ maxConcurrent = SCHEDULER_MAX_CONCURRENT

\* Spec .. SpecRun are at rest
BaseIdle == PipeIdle /\ SyncIdle /\ ExecIdle /\ GateIdle /\ ReadIdle /\ AlertIdle /\ ScoreIdle /\ FlowIdle /\ DiffIdle /\ PerfIdle /\ LifeIdle /\ RunIdle

\* every specification but that of the history read is at rest
NonHistIdle == BaseIdle /\ CallsIdle /\ StopIdle /\ AuthIdle /\ RateIdle
OtherHistIdle == CallsIdle /\ StopIdle /\ AuthIdle /\ RateIdle

\* every specification but that of the concurrent gateway calls is at rest
NonCallsIdle == BaseIdle /\ HistIdle /\ StopIdle /\ AuthIdle /\ RateIdle
OtherCallsIdle == HistIdle /\ StopIdle /\ AuthIdle /\ RateIdle

\* every specification but that of the shutdown specification is at rest
NonStopIdle == BaseIdle /\ HistIdle /\ CallsIdle /\ AuthIdle /\ RateIdle
OtherStopIdle == HistIdle /\ CallsIdle /\ AuthIdle /\ RateIdle

\* every specification but that of authentication is at rest
NonAuthIdle == BaseIdle /\ HistIdle /\ CallsIdle /\ StopIdle /\ RateIdle
OtherAuthIdle == HistIdle /\ CallsIdle /\ StopIdle /\ RateIdle

\* every specification but that of the failure rate is at rest
NonRateIdle == BaseIdle /\ HistIdle /\ CallsIdle /\ StopIdle /\ AuthIdle
OtherRateIdle == HistIdle /\ CallsIdle /\ StopIdle /\ AuthIdle

Init ==
    /\ \E gone \in {{}, {NumEndpoints}} :
          /\ repo = [e \in EndpointIds \ gone |-> 60]
          /\ deleted = gone
    /\ jobs = [j \in {job_id(e) : e \in EndpointIds} |-> timedelta(60)]
    /\ SyncIdle
    /\ ExecIdle
    /\ GateIdle
    /\ RestIdle
    /\ db = {}
    /\ pc = [t \in Tasks |-> "idle"]
    /\ call = [t \in Tasks |-> NoCall]
    /\ session = [t \in Tasks |-> {}]
    /\ nextRun = 1
    /\ dispatched = {}
    /\ aborted = {}
    /\ lastTick = NoTick
    /\ maxConcurrent = SCHEDULER_MAX_CONCURRENT

\* the same program started with SCHEDULER_MAX_CONCURRENT set in the environment
InitCap ==
    /\ repo = [e \in EndpointIds |-> 60]
    /\ deleted = {}
    /\ jobs = [j \in {job_id(e) : e \in EndpointIds} |-> timedelta(60)]
    /\ SyncIdle
    /\ ExecIdle
    /\ GateIdle
    /\ RestIdle
    /\ db = {}
    /\ pc = [t \in Tasks |-> "idle"]
    /\ call = [t \in Tasks |-> NoCall]
    /\ session = [t \in Tasks |-> {}]
    /\ nextRun = 1
    /\ dispatched = {}
    /\ aborted = {}
    /\ lastTick = NoTick
    /\ maxConcurrent \in MaxConcurrentSettings

Next ==
    \/ TickInvalidId
    \/ \E e \in EndpointIds : TickStart(e)
    \/ \E t \in ReqTasks, e \in EndpointIds, tenant \in Tenants : TriggerStart(t, e, tenant)
    \/ \E t \in Tasks : HttpDone(t)
    \/ \E t \in Tasks : Analyse(t)
    \/ \E e \in JobTasks : Commit(e)
    \/ \E t \in ReqTasks : TriggerFinish(t)
    \/ \E e \in JobTasks : Alert(e)

Spec == Init /\ [][Next]_vars

SpecCap == InitCap /\ [][Next]_vars

\* ------------------------------------------------------------------------
\* Claims about ticks and the store
\* ------------------------------------------------------------------------
RunVisible(r) == \E row \in db : row.kind = "run" /\ row.run = r
RiskVisible(r) == \E row \in db : row.kind = "risk" /\ row.run = r

\* C1: however a run_endpoint call ends (invalid id, session, lookup, not
\* found, pipeline, commit or alert failure), no exception leaves it, and
\* every job is still in the job store.
C1_TickNeverPropagates ==
    /\ ~lastTick.propagated
    /\ (lastTick.stage # "none" => DOMAIN jobs = {job_id(e) : e \in EndpointIds})

\* a tick whose commit failed has returned
C1_Witness == lastTick.stage = "commit" /\ ~lastTick.propagated

\* C2: in every committed state a Run row is visible exactly when its
\* RiskScore row is, and no row is visible of a run whose pipeline is still
\* before its commit or ended without one.
C2_RunAndRiskTogether ==
    /\ \A r \in RunIds : RunVisible(r) <=> RiskVisible(r)
    /\ \A row \in db : row.run \notin aborted
    /\ \A t \in Tasks : InFlight(t) => \A row \in db : row.run # call[t].run

\* one run is committed and another was abandoned after its rows were flushed
C2_Witness ==
    /\ \E r \in RunIds : RunVisible(r) /\ RiskVisible(r)
    /\ aborted # {}
    /\ lastTick.stage = "commit"

\* C3: every run handed to the dispatcher has its Run and RiskScore rows
\* committed, and they stay committed whatever the dispatcher does.
C3_AlertAfterCommit ==
    \A r \in dispatched : RunVisible(r) /\ RiskVisible(r) /\ r \notin aborted

\* the dispatcher failed for a committed run
C3_Witness ==
    /\ lastTick.stage \in {"not_delivered", "alert"}
    /\ \E r \in dispatched : RunVisible(r) /\ RiskVisible(r)

\* C4: at most one pipeline execution per endpoint is between its HTTP
\* attempt and its commit.
C4_NoOverlapPerEndpoint ==
    \A e \in EndpointIds :
        Cardinality({t \in Tasks : InFlight(t) /\ call[t].endpoint = e}) <= 1

\* C5: at most SCHEDULER_MAX_CONCURRENT job ticks execute at once.
C5_GlobalCap ==
    Cardinality({e \in JobTasks : RunningInstances(e) > 0}) <= maxConcurrent

\* ------------------------------------------------------------------------
\* SpecSync: the endpoint repository changed through the endpoint API and
\* MonitorScheduler.sync_jobs bringing the job store in line with it
\* ------------------------------------------------------------------------
\* endpoints ever created in a behaviour
NumSyncEndpoints == 3
SyncEndpointIds == 1..NumSyncEndpoints

\* monitoring_interval_seconds: an ordinary value and the largest allowed
Intervals == {60, SecondsPerDay}

\* the id given to a new endpoint row: one no row has had
fresh_id == Cardinality(DOMAIN repo \cup deleted) + 1

\* a function without the key k (dict after del, table after a row delete)
Without(f, k) == [x \in DOMAIN f \ {k} |-> f[x]]

\* a function with the key k set to v
With(f, k, v) == [x \in DOMAIN f \cup {k} |-> IF x = k THEN v ELSE f[x]]

\* POST /endpoints: ApiEndpointService.create_endpoint
CreateEndpoint(interval) ==
    /\ fresh_id \in SyncEndpointIds
    /\ repo' = With(repo, fresh_id, interval)
    /\ quiet' = FALSE
    /\ returned' = [status |-> "201"]
    /\ UNCHANGED <<jobs, db, deleted, syncPc, syncSeen, inRow, nonSyncVars>>

\* PATCH /endpoints/{id} with monitoring_interval_seconds:
\* ApiEndpointService.update_endpoint
UpdateEndpoint(e, tenant, interval) ==
    /\ IF get_by_id(e, tenant) = NoEndpoint
       THEN /\ returned' = [status |-> "404"]
            /\ UNCHANGED <<repo, quiet>>
       ELSE /\ repo' = [repo EXCEPT ![e] = interval]
            /\ quiet' = (quiet /\ repo' = repo)
            /\ returned' = [status |-> "200"]
    /\ UNCHANGED <<jobs, db, deleted, syncPc, syncSeen, inRow, nonSyncVars>>

\* DELETE /endpoints/{id}: ApiEndpointService.delete_endpoint, the rows of
\* the endpoint's runs go with it (ondelete CASCADE); then, the scheduler
\* running, "monitor_scheduler.scheduler.remove_job(job_id)", whose
\* JobLookupError for a job that does not exist is swallowed
DeleteEndpoint(e, tenant) ==
    /\ IF get_by_id(e, tenant) = NoEndpoint
       THEN /\ returned' = [status |-> "404"]
            /\ UNCHANGED <<repo, jobs, db, deleted, quiet>>
       ELSE /\ repo' = Without(repo, e)
            /\ db' = {row \in db : row.endpoint # e}
            /\ deleted' = deleted \cup {e}
            /\ jobs' = Without(jobs, job_id(e))
            /\ quiet' = FALSE
            /\ returned' = [status |-> "204"]
    /\ UNCHANGED <<syncPc, syncSeen, inRow, nonSyncVars>>

\* desired: job id -> monitoring_interval_seconds of the endpoints read
desired_jobs(endpoints) ==
    [j \in {job_id(e) : e \in DOMAIN endpoints} |-> endpoints[endpoint_of(j)]]

\* "int(current_interval) != interval"
IntervalChangedSecondsField(job, interval) == job.seconds # interval
IntervalChanged(job, interval) == total_seconds(job) # interval

\* "if job_id not in desired"
IsStaleNever(j, desired) == FALSE
IsStale(j, desired) == j \notin DOMAIN desired

\* state of the loops of sync_jobs
SyncState(store) == [jobs |-> store, added |-> 0, updated |-> 0, removed |-> 0]

\* "for job_id in existing_ids: if job_id not in desired: remove_job"
RECURSIVE RemoveLoop(_, _, _)
RemoveLoop(todo, desired, st) ==
    IF todo = {} THEN st
    ELSE LET j == CHOOSE x \in todo : TRUE
             st1 == IF IsStale(j, desired)
                    THEN [st EXCEPT !.jobs = Without(@, j), !.removed = @ + 1]
                    ELSE st
         IN RemoveLoop(todo \ {j}, desired, st1)

\* "for job_id, interval in desired.items()": reschedule_job when the job
\* existed and its interval differs, add_job when it did not exist
RECURSIVE AddOrUpdateLoop(_, _, _, _)
AddOrUpdateLoop(todo, desired, existing_ids, st) ==
    IF todo = {} THEN st
    ELSE LET j == CHOOSE x \in todo : TRUE
             interval == desired[j]
             st1 == IF j \in existing_ids
                    THEN IF j \in DOMAIN st.jobs /\ IntervalChanged(st.jobs[j], interval)
                         THEN [st EXCEPT !.jobs = With(@, j, timedelta(interval)),
                                         !.updated = @ + 1]
                         ELSE st
                    ELSE [st EXCEPT !.jobs = With(@, j, timedelta(interval)),
                                    !.added = @ + 1]
         IN AddOrUpdateLoop(todo \ {j}, desired, existing_ids, st1)

\* sync_jobs up to its await: opens a session and reads every endpoint
SyncRead ==
    /\ syncPc = "idle"
    /\ syncPc' = "read"
    /\ syncSeen' = repo
    /\ inRow' = quiet
    /\ quiet' = TRUE
    /\ UNCHANGED <<repo, jobs, db, deleted, returned, nonSyncVars>>

\* sync_jobs after its await: the two loops and the summary, with no
\* suspension point between them
SyncApply ==
    /\ syncPc = "read"
    /\ LET desired == desired_jobs(syncSeen)
           existing_ids == DOMAIN jobs
           st1 == RemoveLoop(existing_ids, desired, SyncState(jobs))
           st2 == AddOrUpdateLoop(DOMAIN desired, desired, existing_ids, st1)
       IN /\ jobs' = st2.jobs
          /\ returned' = [status |-> "synced",
                          total_jobs |-> Cardinality(DOMAIN desired),
                          added |-> st2.added,
                          updated |-> st2.updated,
                          removed |-> st2.removed]
    /\ syncPc' = "idle"
    /\ syncSeen' = NoSnapshot
    /\ UNCHANGED <<repo, db, deleted, quiet, inRow, nonSyncVars>>

\* a started scheduler with an empty job store, before the first sync
InitSync ==
    /\ PipeIdle
    /\ SyncIdle
    /\ ExecIdle
    /\ GateIdle
    /\ RestIdle

\* the endpoint API is called by the organisation an id belongs to, with ids
\* that exist and ids that do not
NextSync ==
    \/ \E interval \in Intervals : CreateEndpoint(interval)
    \/ \E e \in SyncEndpointIds, interval \in Intervals :
          UpdateEndpoint(e, OwnerOf(e), interval)
    \/ \E e \in SyncEndpointIds : DeleteEndpoint(e, OwnerOf(e))
    \/ SyncRead
    \/ SyncApply

SpecSync == InitSync /\ [][NextSync]_vars

\* ------------------------------------------------------------------------
\* Claims about sync_jobs
\* ------------------------------------------------------------------------
\* the step in which a sync_jobs call returns
SyncReturns == syncPc = "read" /\ syncPc' = "idle"

\* interval of every job, by endpoint id
JobIntervals(store) ==
    [e \in {endpoint_of(j) : j \in DOMAIN store} |-> total_seconds(store[job_id(e)])]

\* C6: when a sync_jobs call returns and the repository has not changed
\* since the call read it, the job ids are exactly "monitor_" + id of the
\* repository's endpoints, every job's interval is its endpoint's, and the
\* summary reports total = |desired|, added = |desired - existing|,
\* removed = |existing - desired|, updated = jobs in both whose interval
\* differed.
C6_SyncMatchesRepository ==
    [][(SyncReturns /\ quiet) =>
        LET desired == {job_id(e) : e \in DOMAIN repo}
            existing == DOMAIN jobs
        IN /\ DOMAIN jobs' = desired
           /\ JobIntervals(jobs') = repo
           /\ returned' = [status |-> "synced",
                           total_jobs |-> Cardinality(desired),
                           added |-> Cardinality(desired \ existing),
                           removed |-> Cardinality(existing \ desired),
                           updated |-> Cardinality({j \in desired \cap existing :
                               total_seconds(jobs[j]) # repo[endpoint_of(j)]})]]_vars

\* the sync of two endpoints against two jobs, one of them of a deleted
\* endpoint, has returned added 1, updated 0, removed 1, total 2
C6_Witness ==
    /\ quiet
    /\ syncPc = "idle"
    /\ returned = [status |-> "synced", total_jobs |-> 2,
                   added |-> 1, updated |-> 0, removed |-> 1]
    /\ Cardinality(deleted) = 1
    /\ \E a, b \in DOMAIN repo : repo[a] = 60 /\ repo[b] = SecondsPerDay
    /\ JobIntervals(jobs) = repo

\* C7: when a sync_jobs call that began right after another one returned,
\* with no repository change since that one read the repository, returns,
\* it reports added = updated = removed = 0 and the job store is unchanged.
C7_SyncIdempotent ==
    [][(SyncReturns /\ inRow /\ quiet) =>
        /\ jobs' = jobs
        /\ returned'.added = 0
        /\ returned'.updated = 0
        /\ returned'.removed = 0
        /\ returned'.total_jobs = Cardinality(DOMAIN repo)]_vars

\* a second sync in a row has returned over a job store holding a one-day
\* interval
C7_Witness ==
    /\ syncPc = "idle"
    /\ inRow
    /\ quiet
    /\ returned.status = "synced"
    /\ \E j \in DOMAIN jobs : jobs[j].days = 1

\* C35: whenever no sync_jobs call is in flight, every scheduled job is the
\* job of an endpoint that exists in the repository; an endpoint deleted
\* through delete_endpoint has no job monitor_<id> once every sync_jobs
\* call, one that overlapped the deletion included, has returned.
C35_NoJobOfDeletedEndpoint ==
    syncPc = "idle" => \A j \in DOMAIN jobs : endpoint_of(j) \in DOMAIN repo

\* ------------------------------------------------------------------------
\* SpecExec: one call of ApiRunner.execute
\* ------------------------------------------------------------------------
\* largest configured max_retries
MaxConfiguredRetries == 4

\* the config argument: absent, or a RunnerConfig with max_retries set
Configs == {NoConfig} \cup {RunnerConfig(n) : n \in 0..MaxConfiguredRetries}

ExpectedStatuses == {200, 201}
Statuses == {200, 201, 500}
Bodies == {None, "object"}
ElapsedMs == {40}

\* what the transport does with one request: a response, or an exception
TransportOutcomes ==
    [kind : {"response"}, status : Statuses, body : Bodies, ms : ElapsedMs]
    \cup [kind : {"TimeoutException", "ConnectError", "HTTPError", "Exception"},
          status : {NoStatus}, body : {None}, ms : ElapsedMs]

\* ApiRunner._single_attempt
single_attempt(started, expected, outcome) ==
    IF ~started
    THEN RunResult(NoStatus, NoTime, None, FALSE, "ApiRunner not started")
    ELSE CASE outcome.kind = "response" ->
                RunResult(outcome.status, outcome.ms, outcome.body,
                          outcome.status = expected, None)
           [] outcome.kind = "TimeoutException" ->
                RunResult(NoStatus, outcome.ms, None, FALSE, "Timeout after")
           [] outcome.kind = "ConnectError" ->
                RunResult(NoStatus, NoTime, None, FALSE, "Connection error")
           [] outcome.kind = "HTTPError" ->
                RunResult(NoStatus, NoTime, None, FALSE, "HTTP error")
           [] OTHER ->
                RunResult(NoStatus, NoTime, None, FALSE, "Unexpected error")

\* "if last_result.is_success or last_result.status_code is not None"
ReturnsNowOnSuccessOnly(r) == r.is_success
ReturnsNow(r) == r.is_success \/ r.status_code # NoStatus

\* execute is called: "cfg = config or RunnerConfig()", "last_result = None"
ExecuteCall ==
    /\ execPc = "idle"
    /\ execPc' = "loop"
    /\ cfg' = IF cfg = NoConfig THEN RunnerConfig(DEFAULT_MAX_RETRIES) ELSE cfg
    /\ attempt' = 1
    /\ last_result' = PyNone
    /\ UNCHANGED <<client, expected_status, attempts, sleeps, result,
                   nonExecVars>>

\* "await asyncio.sleep(cfg.retry_backoff_seconds * attempt)"
backoff_doubling(config, n) == config.retry_backoff_seconds * (2 ^ (n - 1))
backoff(config, n) == config.retry_backoff_seconds * n

\* one iteration of "for attempt in range(1, cfg.max_retries + 1)"
Attempt(outcome) ==
    /\ execPc = "loop"
    /\ attempt <= cfg.max_retries
    /\ LET r == single_attempt(client, expected_status, outcome)
       IN /\ last_result' = r
          /\ attempts' = Append(attempts, r)
          /\ IF ReturnsNow(r)
             THEN /\ result' = r
                  /\ execPc' = "done"
                  /\ UNCHANGED <<attempt, sleeps>>
             ELSE /\ sleeps' = IF attempt < cfg.max_retries
                               THEN Append(sleeps, backoff(cfg, attempt))
                               ELSE sleeps
                  /\ attempt' = attempt + 1
                  /\ UNCHANGED <<result, execPc>>
    /\ UNCHANGED <<client, cfg, expected_status, nonExecVars>>

\* the range is used up: "return last_result"
Exhausted ==
    /\ execPc = "loop"
    /\ attempt > cfg.max_retries
    /\ result' = last_result
    /\ execPc' = "done"
    /\ UNCHANGED <<client, cfg, expected_status, attempt, last_result, attempts, sleeps,
                   nonExecVars>>

\* an executor, started or not, about to be called with some arguments
InitExec ==
    /\ client \in BOOLEAN
    /\ cfg \in Configs
    /\ expected_status \in ExpectedStatuses
    /\ execPc = "idle"
    /\ attempt = 0
    /\ last_result = PyNone
    /\ attempts = <<>>
    /\ sleeps = <<>>
    /\ result = PyNone
    /\ SyncIdle
    /\ PipeIdle
    /\ GateIdle
    /\ RestIdle

NextExec ==
    \/ ExecuteCall
    \/ \E outcome \in TransportOutcomes : Attempt(outcome)
    \/ Exhausted

SpecExec == InitExec /\ [][NextExec]_vars

\* ------------------------------------------------------------------------
\* Claims about the executor
\* ------------------------------------------------------------------------
\* C8: every attempt but the last observed no status, and once an attempt
\* has observed a status, whatever it is, execute has returned that
\* attempt's result.
C8_ReturnOnAnyResponse ==
    /\ \A i \in 1..Len(attempts) :
          i < Len(attempts) => attempts[i].status_code = NoStatus
    /\ (Len(attempts) > 0 /\ attempts[Len(attempts)].status_code # NoStatus) =>
          /\ execPc = "done"
          /\ result = attempts[Len(attempts)]

\* after a transport failure an attempt got a 500 where another status was
\* expected, and execute returned it with attempts to spare
C8_Witness ==
    /\ execPc = "done"
    /\ Len(attempts) = 2
    /\ Len(attempts) < cfg.max_retries
    /\ attempts[1].status_code = NoStatus
    /\ result.status_code = 500
    /\ ~result.is_success

\* C9: whatever the configuration, once execute has returned it has
\* returned a RunResult in which status_code or error_message is set.
C9_AlwaysRunResult ==
    execPc = "done" =>
        /\ result # PyNone
        /\ (result.status_code # NoStatus \/ result.error_message # None)

\* C30: execute makes at most max_retries attempts; after every failed
\* attempt but the last it sleeps retry_backoff_seconds times the number of
\* the attempt, and it does not sleep after the last attempt; when every
\* attempt failed at the transport level the result returned is that of
\* the last attempt, without status_code and with error_message.
C30_BoundedLinearBackoff ==
    /\ Len(attempts) <= cfg.max_retries \/ attempts = <<>>
    /\ \A i \in 1..Len(sleeps) : sleeps[i] = cfg.retry_backoff_seconds * i
    /\ execPc = "loop" =>
          Len(sleeps) = IF Len(attempts) = cfg.max_retries /\ attempts # <<>>
                        THEN Len(attempts) - 1 ELSE Len(attempts)
    /\ (execPc = "done" /\ attempts # <<>>) =>
          /\ Len(sleeps) = Len(attempts) - 1
          /\ (\A i \in 1..Len(attempts) : attempts[i].status_code = NoStatus) =>
                /\ Len(attempts) = cfg.max_retries
                /\ result = attempts[Len(attempts)]
                /\ result.status_code = NoStatus
                /\ result.error_message # None

\* four attempts failed at the transport level, three sleeps of 1, 2 and 3
C30_Witness ==
    /\ execPc = "done"
    /\ Len(attempts) = 4
    /\ sleeps = <<1, 2, 3>>
    /\ result.status_code = NoStatus
    /\ result.error_message = "Timeout after"

\* ------------------------------------------------------------------------
\* SpecGate: one call of AnomalyEngine.analyse, with the LLM gateway call
\* it may make
\* ------------------------------------------------------------------------
\* what the transport made of the monitored request, as the executor reports it
ExecutorResults ==
    {single_attempt(TRUE, e, o) : e \in ExpectedStatuses, o \in TransportOutcomes}
    \cup {single_attempt(FALSE, 200, o) : o \in TransportOutcomes}

\* words of _rule_based_analysis found in error_message.lower()
Keywords(message) ==
    CASE message = "Timeout after" -> {"timeout"}
      [] message = "Connection error" -> {"connection"}
      [] message = "Connection error: connect timeout" -> {"timeout", "connection"}
      [] OTHER -> {}

\* history length and deviation of the current run from the rolling average
SampleSizes == {0, 2}
Deviations == {0 - 50, 0, SPIKE_THRESHOLD_PERCENT, CRITICAL_SPIKE_THRESHOLD_PERCENT}

\* performance = None
NoPerformance ==
    [present |-> FALSE, sample_size |-> 0, deviation_percent |-> 0,
     is_spike |-> FALSE, is_critical_spike |-> FALSE]

\* PerformanceTracker.analyse with the default thresholds, from the history
\* length and the deviation it computed
PerformanceResult(sample_size, deviation_pct) ==
    IF sample_size < 2
    THEN [present |-> TRUE, sample_size |-> sample_size, deviation_percent |-> 0,
          is_spike |-> FALSE, is_critical_spike |-> FALSE]
    ELSE [present |-> TRUE, sample_size |-> sample_size,
          deviation_percent |-> deviation_pct,
          is_spike |-> deviation_pct >= SPIKE_THRESHOLD_PERCENT,
          is_critical_spike |-> deviation_pct >= CRITICAL_SPIKE_THRESHOLD_PERCENT]

\* step 4 of execute_endpoint: analysed only when a response time was measured
PerformanceResults(run) ==
    IF run.response_time_ms = NoTime THEN {NoPerformance}
    ELSE {PerformanceResult(n, d) : n \in SampleSizes, d \in Deviations}

\* SchemaValidator.validate: skipped without a body, else a diff
DriftAnalyses(run) ==
    IF run.response_body = None THEN {[has_drift |-> FALSE, drift_count |-> 0]}
    ELSE {[has_drift |-> FALSE, drift_count |-> 0],
          [has_drift |-> TRUE, drift_count |-> 1],
          [has_drift |-> TRUE, drift_count |-> 5]}

\* get_failure_rate counts the current run: a failed run makes it positive
FailureRates(run) == IF run.is_success THEN {0, 20, 50} ELSE {20, 50}

\* the arguments execute_endpoint passes to analyse
analyse_args(run, perf, drift, rate) ==
    [actual_status |-> run.status_code,
     response_time_ms |-> run.response_time_ms,
     is_success |-> run.is_success,
     error_message |-> run.error_message,
     performance |-> perf,
     drift |-> drift,
     failure_rate_percent |-> rate]

\* AnomalyEngine._collect_signals
collect_signals_with_failure_rate(a) ==
    (IF ~a.is_success THEN {"status_failure"} ELSE {})
    \cup (IF a.error_message \notin {None, ""} THEN {"http_error"} ELSE {})
    \cup (IF a.performance.present /\ a.performance.is_spike THEN {"latency_spike"} ELSE {})
    \cup (IF a.drift.has_drift THEN {"schema_drift"} ELSE {})
    \cup (IF a.failure_rate_percent >= 30 THEN {"high_failure_rate"} ELSE {})
collect_signals(a) ==
    (IF ~a.is_success THEN {"status_failure"} ELSE {})
    \cup (IF a.error_message \notin {None, ""} THEN {"http_error"} ELSE {})
    \cup (IF a.performance.present /\ a.performance.is_spike THEN {"latency_spike"} ELSE {})
    \cup (IF a.performance.present /\ a.performance.is_critical_spike
          THEN {"critical_latency_spike"} ELSE {})
    \cup (IF a.drift.has_drift THEN {"schema_drift"} ELSE {})

\* max(lo, min(hi, x))
clamp(lo, hi, x) == IF x < lo THEN lo ELSE IF x > hi THEN hi ELSE x

\* AnomalyEngine._rule_based_analysis
rule_based_analysis(a) ==
    LET status == IF a.is_success THEN 0
                  ELSE IF a.actual_status = NoStatus THEN 60
                  ELSE IF a.actual_status >= 500 THEN 50
                  ELSE IF a.actual_status >= 400 THEN 25
                  ELSE 0
        error == IF a.error_message \in {None, ""} THEN 0
                 ELSE IF "timeout" \in Keywords(a.error_message) THEN 20
                 ELSE IF "connection" \in Keywords(a.error_message) THEN 30
                 ELSE 0
        spike == IF ~a.performance.present THEN 0
                 ELSE IF a.performance.is_critical_spike THEN 35
                 ELSE IF a.performance.is_spike THEN 20
                 ELSE 0
        drifted == IF ~a.drift.has_drift THEN 0
                   ELSE IF a.drift.drift_count >= 5 THEN 25
                   ELSE 10
        history == IF a.failure_rate_percent >= 30 THEN 15 ELSE 0
        severity == clamp(0, 100, status + error + spike + drifted + history)
        detected == severity >= 20
    IN AnomalyResult(detected, severity, IF detected THEN 60 ELSE 80, None, FALSE, TRUE)

\* a field of the gateway's JSON answer: a number, absent, not a number, or
\* an integer literal beyond the range of float
RawNumbers(values) ==
    [kind : {"number"}, v : values]
    \cup [kind : {"missing", "malformed", "huge_int"}, v : {0}]

\* answers of the gateway that parsed as a JSON object
RawResponses ==
    [anomaly_detected : BOOLEAN,
     severity_score : RawNumbers({0 - 10, 40, 250}),
     confidence : RawNumbers({0 - 20, 90, 150})]

\* float() raises OverflowError on an int too large to convert, which
\* "except (ValueError, TypeError)" does not catch
float_raises(field) == field.kind = "huge_int"

\* "float(raw.get(key, default))" with the value used when float() fails
\* with ValueError or TypeError
to_float_or_default(field, default, on_error) ==
    IF field.kind = "number" THEN field.v ELSE default
to_float(field, default, on_error) ==
    CASE field.kind = "number" -> field.v
      [] field.kind = "missing" -> default
      [] OTHER -> on_error

\* _parse_response leaves with an exception
parse_raises(raw) == float_raises(raw.severity_score) \/ float_raises(raw.confidence)

\* AnomalyEngine._parse_response
parse_response(raw) ==
    AnomalyResult(raw.anomaly_detected,
                  clamp(0, 100, to_float(raw.severity_score, 0, 50)),
                  clamp(0, 100, to_float(raw.confidence, 50, 50)),
                  None, TRUE, FALSE)

\* errors a provider call raises: str(exc) as a sequence of characters, and
\* whether the failure is transient (connection, timeout, rate limit) or
\* not (rejected key, rejected request)
ProviderErrors ==
    {[text |-> <<"C", "o", "n", "n", "e", "c", "t", "i", "o", "n", " ", "e", "r", "r", "o", "r", ".">>, transient |-> TRUE],
     [text |-> <<"T", "i", "m", "e", "d", " ", "o", "u", "t", ".">>, transient |-> TRUE],
     [text |-> <<"4", "2", "9", " ", "r", "a", "t", "e", "_", "l", "i", "m", "i", "t">>, transient |-> TRUE],
     [text |-> <<"4", "0", "1", " ", "b", "a", "d", " ", "a", "p", "i", " ", "k", "e", "y">>, transient |-> FALSE],
     [text |-> <<"4", "0", "0", " ", "a", "s", "k", "e", "d", " ", "8", "5", "0", "2", " ", "t", "o", "k", "e", "n", "s">>, transient |-> FALSE]}

\* the tuple _RETRYABLE_ERRORS
RETRYABLE_ERRORS ==
    {<<"t", "i", "m", "e", "o", "u", "t">>,
     <<"c", "o", "n", "n", "e", "c", "t", "i", "o", "n">>,
     <<"r", "a", "t", "e", "_", "l", "i", "m", "i", "t">>,
     <<"s", "e", "r", "v", "e", "r", "_", "e", "r", "r", "o", "r">>,
     <<"o", "v", "e", "r", "l", "o", "a", "d", "e", "d">>,
     <<"5", "0", "3">>, <<"5", "0", "2">>, <<"5", "0", "4">>, <<"5", "2", "9">>}

UpperCase == <<"A", "B", "C", "D", "E", "F", "G", "H", "I", "J", "K", "L", "M",
               "N", "O", "P", "Q", "R", "S", "T", "U", "V", "W", "X", "Y", "Z">>
LowerCase == <<"a", "b", "c", "d", "e", "f", "g", "h", "i", "j", "k", "l", "m",
               "n", "o", "p", "q", "r", "s", "t", "u", "v", "w", "x", "y", "z">>

\* str.lower()
lower(text) ==
    [i \in 1..Len(text) |->
        IF \E k \in 1..Len(UpperCase) : UpperCase[k] = text[i]
        THEN LowerCase[CHOOSE k \in 1..Len(UpperCase) : UpperCase[k] = text[i]]
        ELSE text[i]]

\* "keyword in text"
Contains(text, keyword) ==
    \E i \in 1..(Len(text) - Len(keyword) + 1) :
        SubSeq(text, i, i + Len(keyword) - 1) = keyword

\* _is_retryable
is_retryable(error) ==
    \E keyword \in RETRYABLE_ERRORS : Contains(lower(error.text), keyword)

\* what one attempt of LLMClient.analyse meets
GatewayOutcomes ==
    [kind : {"parsed"}, raw : RawResponses, tokens : {0, 100}, error : {NoError}]
    \cup [kind : {"unparseable"},
          raw : {CHOOSE r \in RawResponses : TRUE}, tokens : {0}, error : {NoError}]
    \cup [kind : {"error"},
          raw : {CHOOSE r \in RawResponses : TRUE}, tokens : {0}, error : ProviderErrors]

\* analyse up to its first await or its return: the cost gate, then the
\* prompt and the call of the gateway when it is available, else the fallback
AnalyseCall ==
    /\ gatePc = "idle"
    /\ IF collect_signals(args) = {}
       THEN /\ verdict' = NO_ANOMALY
            /\ gatePc' = "done"
            /\ UNCHANGED <<metrics, llm_attempt, prompt_built, last_error>>
       ELSE IF llm_available
       THEN /\ prompt_built' = TRUE
            /\ metrics' = [metrics EXCEPT !.total_calls = @ + 1]
            /\ last_error' = NoError
            /\ llm_attempt' = 1
            /\ gatePc' = "gateway"
            /\ UNCHANGED verdict
       ELSE /\ verdict' = rule_based_analysis(args)
            /\ gatePc' = "done"
            /\ UNCHANGED <<metrics, llm_attempt, prompt_built, last_error>>
    /\ UNCHANGED <<llm_available, args, llm_sleeps, anomaly_record, nonGateVars>>

\* one iteration of the loop of LLMClient.analyse and, when it returns, the
\* rest of AnomalyEngine.analyse
LLMAttempt(outcome) ==
    /\ gatePc = "gateway"
    /\ llm_attempt <= MAX_RETRIES
    /\ CASE outcome.kind = "parsed" ->
              /\ metrics' = [metrics EXCEPT !.successful_calls = @ + 1,
                                            !.total_tokens_used = @ + outcome.tokens]
              /\ IF parse_raises(outcome.raw)
                 THEN /\ gatePc' = "raised"
                      /\ UNCHANGED verdict
                 ELSE /\ verdict' = parse_response(outcome.raw)
                      /\ gatePc' = "done"
              /\ last_error' = NoError
              /\ UNCHANGED <<llm_attempt, llm_sleeps>>
         [] outcome.kind = "unparseable" ->
              /\ metrics' = [metrics EXCEPT !.failed_calls = @ + 1]
              /\ verdict' = rule_based_analysis(args)
              /\ gatePc' = "done"
              /\ last_error' = NoError
              /\ UNCHANGED <<llm_attempt, llm_sleeps>>
         [] outcome.kind = "error" /\ llm_attempt < MAX_RETRIES
                                   /\ is_retryable(outcome.error) ->
              /\ last_error' = outcome.error
              /\ metrics' = [metrics EXCEPT !.retried_calls = @ + 1]
              /\ llm_sleeps' = Append(llm_sleeps, RETRY_BASE_DELAY_S * 2 ^ (llm_attempt - 1))
              /\ llm_attempt' = llm_attempt + 1
              /\ UNCHANGED <<verdict, gatePc>>
         [] OTHER ->
              /\ metrics' = [metrics EXCEPT !.failed_calls = @ + 1]
              /\ verdict' = rule_based_analysis(args)
              /\ gatePc' = "done"
              /\ last_error' = NoError
              /\ UNCHANGED <<llm_attempt, llm_sleeps>>
    /\ UNCHANGED <<llm_available, args, prompt_built, anomaly_record, nonGateVars>>

\* Anomaly(...) with the keyword arguments execute_endpoint passes; a column
\* that is not passed takes its default on insert (confidence 0.0,
\* recommendation NULL, ai_called false, used_fallback false)
Anomaly(anomaly) ==
    [anomaly_detected |-> anomaly.anomaly_detected,
     severity_score |-> anomaly.severity_score,
     confidence |-> 0,
     recommendation |-> None,
     ai_called |-> FALSE,
     used_fallback |-> FALSE]

\* execute_endpoint after the classifier has returned: "if
\* anomaly.anomaly_detected" the Anomaly row is created and flushed
PersistAnomaly ==
    /\ gatePc = "done"
    /\ anomaly_record = NoRecord
    /\ verdict.anomaly_detected
    /\ anomaly_record' = Anomaly(verdict)
    /\ UNCHANGED <<llm_available, metrics, args, gatePc, llm_attempt, prompt_built,
                   last_error, llm_sleeps, verdict, nonGateVars>>

\* a classifier, with or without a gateway client, about to analyse a run
InitGate ==
    /\ llm_available \in BOOLEAN
    /\ metrics = ZeroMetrics
    /\ \E run \in ExecutorResults :
       \E perf \in PerformanceResults(run), drift \in DriftAnalyses(run),
          rate \in FailureRates(run) :
            args = analyse_args(run, perf, drift, rate)
    /\ gatePc = "idle"
    /\ llm_attempt = 0
    /\ prompt_built = FALSE
    /\ last_error = NoError
    /\ llm_sleeps = <<>>
    /\ verdict = NoVerdict
    /\ anomaly_record = NoRecord
    /\ ExecIdle
    /\ SyncIdle
    /\ PipeIdle
    /\ RestIdle

NextGate ==
    \/ AnalyseCall
    \/ \E outcome \in GatewayOutcomes : LLMAttempt(outcome)
    \/ PersistAnomaly

SpecGate == InitGate /\ [][NextGate]_vars

\* ------------------------------------------------------------------------
\* Claims about the classifier
\* ------------------------------------------------------------------------
\* one of the signals is raised: the run failed, it carries an error message,
\* its latency is a spike, its body drifted from the schema
SignalRaised(a) ==
    \/ ~a.is_success
    \/ a.error_message \notin {None, ""}
    \/ (a.performance.present /\ a.performance.is_spike)
    \/ a.drift.has_drift

\* the gateway was used: a prompt was built, a call was counted or is awaited
GatewayTouched ==
    \/ prompt_built
    \/ metrics # ZeroMetrics
    \/ llm_attempt # 0
    \/ gatePc = "gateway"

\* C10: when no signal is raised analyse returns NO_ANOMALY (no anomaly, no
\* AI call, no fallback, confidence 1.0) and the gateway is not touched; the
\* gateway is touched only when a signal is raised; and whether the gate
\* skips is decided by the signals alone.
C10_CostGate ==
    /\ (gatePc = "done" /\ ~SignalRaised(args)) =>
          /\ verdict = NO_ANOMALY
          /\ ~verdict.anomaly_detected
          /\ ~verdict.ai_called
          /\ ~verdict.used_fallback
          /\ verdict.confidence = 100
          /\ ~GatewayTouched
    /\ GatewayTouched => SignalRaised(args)
    /\ gatePc = "done" => (verdict.skipped_reason # None <=> ~SignalRaised(args))

\* a successful run on time and in shape was passed with a high failure
\* rate to a classifier whose gateway is available, and was skipped
C10_Witness ==
    /\ gatePc = "done"
    /\ ~SignalRaised(args)
    /\ llm_available
    /\ args.failure_rate_percent >= 30
    /\ args.performance.sample_size >= 2
    /\ verdict = NO_ANOMALY

\* the result has the form of the rule-based fallback
FallbackForm(v) ==
    /\ v.used_fallback
    /\ ~v.ai_called
    /\ (v.anomaly_detected <=> v.severity_score >= 20)
    /\ v.confidence = (IF v.anomaly_detected THEN 60 ELSE 80)

\* C11: with a signal raised analyse never leaves with an exception, and
\* when it has returned: after an object from an available gateway the
\* result has ai_called and not used_fallback; with no gateway or an absent
\* answer the result is the rule-based one (used_fallback, not ai_called,
\* detected exactly when severity >= 20, confidence 0.6 or 0.8).
C11_AlwaysClassified ==
    /\ gatePc # "raised"
    /\ (gatePc = "done" /\ SignalRaised(args)) =>
          /\ (llm_available /\ metrics.successful_calls > 0) =>
                (verdict.ai_called /\ ~verdict.used_fallback)
          /\ (~llm_available \/ metrics.failed_calls > 0) => FallbackForm(verdict)

\* the step in which LLMClient.analyse goes on to another provider attempt
GatewayRetries == gatePc = "gateway" /\ gatePc' = "gateway" /\ llm_attempt' = llm_attempt + 1

\* C12: LLMClient.analyse makes at most MAX_RETRIES provider attempts; it
\* goes on to another attempt only after a transient error, having slept
\* 1 s after the first attempt and 2 s after the second (base delay doubled
\* per attempt); after any other error or an answer that is no JSON object
\* the call ends with an absent result, which the classifier turns into its
\* fallback.
C12_GatewayRetries ==
    [][/\ llm_attempt' <= MAX_RETRIES
       /\ GatewayRetries =>
             /\ last_error'.transient
             /\ llm_sleeps' = Append(llm_sleeps, 2 ^ (llm_attempt - 1))
       /\ (gatePc = "gateway" /\ gatePc' # "gateway"
             /\ metrics'.successful_calls = metrics.successful_calls) =>
             /\ metrics'.failed_calls = metrics.failed_calls + 1
             /\ verdict' = rule_based_analysis(args)]_vars

\* C21: every AnomalyResult the classifier returns (sentinel, parsed gateway
\* answer, fallback) has severity_score in [0, 100] and confidence in [0, 1];
\* a gateway answer whose severity is not a number is given severity 50, and
\* one whose confidence is not a number is given confidence 0.5.
C21_VerdictInRange ==
    [][/\ verdict' # NoVerdict =>
             /\ verdict'.severity_score \in 0..100
             /\ verdict'.confidence \in 0..100
       /\ \A outcome \in GatewayOutcomes :
             (outcome.kind = "parsed" /\ gatePc' = "done" /\ LLMAttempt(outcome)) =>
                 /\ outcome.raw.severity_score.kind = "malformed" =>
                        verdict'.severity_score = 50
                 /\ outcome.raw.confidence.kind = "malformed" =>
                        verdict'.confidence = 50]_vars

\* a gateway answer with a severity that is not a number and a confidence
\* above 1 was parsed
C21_Witness ==
    /\ gatePc = "done"
    /\ verdict.ai_called
    /\ verdict.severity_score = 50
    /\ verdict.confidence = 100

\* ------------------------------------------------------------------------
\* Claims about the orchestrator
\* ------------------------------------------------------------------------
\* C13: a tick whose execute_endpoint call failed failed with NotFound and
\* with nothing else; the NotFound tick sent no HTTP request, drew no run
\* and flushed or committed no row, and it ended without an exception
\* leaving run_endpoint and with the job still scheduled.
C13_NotFoundOnly ==
    [][/\ lastTick'.stage \notin {"lookup", "pipeline"}
       /\ (lastTick' # lastTick /\ lastTick'.stage = "not_found") =>
             /\ UNCHANGED <<db, session, nextRun, pc, jobs>>
             /\ ~lastTick'.propagated]_vars

\* C18: the persisted Anomaly row has the confidence, ai_called and
\* used_fallback of the AnomalyResult the classifier returned (recommendation
\* likewise; the row's is NULL here).
C18_AnomalyRowCarriesVerdict ==
    anomaly_record # NoRecord =>
        /\ anomaly_record.confidence = verdict.confidence
        /\ anomaly_record.ai_called = verdict.ai_called
        /\ anomaly_record.used_fallback = verdict.used_fallback

\* the rows of run r in a set of rows, of one kind
RowsOf(rows, kind, r) == {row \in rows : row.kind = kind /\ row.run = r}

\* the commit of task t's pipeline execution has succeeded in this step
Commits(t) == pc[t] = "scored" /\ pc'[t] \in {"committed", "idle"} /\ db' # db

\* C17: the commit of a pipeline execution makes visible exactly one Run row
\* and one RiskScore row of its run, an Anomaly row of its run exactly when
\* the classifier returned anomaly_detected = true, and nothing else.
C17_RowsPerRun ==
    [][\A t \in Tasks : Commits(t) =>
          LET r == call[t].run
              new == db' \ db
          IN /\ \A row \in new : row.run = r /\ row.endpoint = call[t].endpoint
             /\ Cardinality(RowsOf(new, "run", r)) = 1
             /\ Cardinality(RowsOf(new, "risk", r)) = 1
             /\ Cardinality(RowsOf(new, "anomaly", r)) = (IF call[t].detected THEN 1 ELSE 0)
             /\ \A kind \in {"run", "risk", "anomaly"} : RowsOf(db, kind, r) = {}]_vars

\* a committed run without an Anomaly row next to a committed run with one
C17_Witness ==
    \E r1, r2 \in RunIds :
        /\ RowsOf(db, "risk", r1) # {} /\ RowsOf(db, "anomaly", r1) = {}
        /\ RowsOf(db, "risk", r2) # {} /\ RowsOf(db, "anomaly", r2) # {}

\* ------------------------------------------------------------------------
\* Read operations of the HTTP API, each on behalf of the caller's tenant
\* ------------------------------------------------------------------------
\* ApiRun.organization_id: a run is created with its endpoint's organisation
organization_id(row) == OwnerOf(row.endpoint)

\* the rows a committed pipeline run leaves behind
RunRows(r, e, detected) == {Row("run", r, e)} \cup AnalysisRows(r, e, detected)

\* the databases the pipeline can have committed: runs 1..k, each of some endpoint
CommittedDbs ==
    UNION {{UNION {RunRows(r, f[r][1], f[r][2]) : r \in 1..k} :
                f \in [1..k -> EndpointIds \X BOOLEAN]} : k \in 0..MaxRuns}

\* ApiRunRepository.get_by_id
run_get_by_id(r, tenant) ==
    {row \in db : row.kind = "run" /\ row.run = r /\ organization_id(row) = tenant}

\* ApiRunRepository.get_by_endpoint with a tenant
run_get_by_endpoint(e, tenant) ==
    {row \in db : row.kind = "run" /\ row.endpoint = e /\ organization_id(row) = tenant}

\* AnomalyRepository.get_by_run_id and RiskScoreRepository.get_by_run_id with a
\* tenant: the row joined with its run, filtered by the run's organisation
get_by_run_id(kind, r, tenant) ==
    {row \in db : /\ row.kind = kind
                  /\ row.run = r
                  /\ \E run \in db : /\ run.kind = "run"
                                     /\ run.run = row.run
                                     /\ organization_id(run) = tenant}

\* ApiRunRepository.get_recent_times: the runs of the endpoint that have a
\* response time (every run row here has one); it takes no tenant
get_recent_times(e) == {row \in db : row.kind = "run" /\ row.endpoint = e}

Readout(op, tenant, rows) ==
    [op |-> op, tenant |-> tenant, owners |-> {organization_id(row) : row \in rows}]

\* GET /endpoints/{endpoint_id}
get_endpoint(e, tenant) ==
    /\ readout' = [op |-> "get_endpoint", tenant |-> tenant,
                   owners |-> IF get_by_id(e, tenant) = NoEndpoint THEN {} ELSE {OwnerOf(e)}]
    /\ UNCHANGED nonReadVars

\* GET /runs/{run_id}
get_run(r, tenant) ==
    /\ readout' = Readout("get_run", tenant, run_get_by_id(r, tenant))
    /\ UNCHANGED nonReadVars

\* GET /runs/endpoint/{endpoint_id}
list_runs_for_endpoint(e, tenant) ==
    /\ readout' = Readout("list_runs_for_endpoint", tenant, run_get_by_endpoint(e, tenant))
    /\ UNCHANGED nonReadVars

\* GET /anomalies/run/{run_id}
get_anomaly_for_run(r, tenant) ==
    /\ readout' = Readout("get_anomaly_for_run", tenant, get_by_run_id("anomaly", r, tenant))
    /\ UNCHANGED nonReadVars

\* GET /risk-scores/run/{run_id}
get_risk_for_run(r, tenant) ==
    /\ readout' = Readout("get_risk_for_run", tenant, get_by_run_id("risk", r, tenant))
    /\ UNCHANGED nonReadVars

\* GET /monitor/performance/{endpoint_id}: the statistics are computed from
\* get_recent_times(endpoint_id); tenant_id is not used
get_performance(e, tenant) ==
    /\ readout' = Readout("get_performance", tenant, get_recent_times(e))
    /\ UNCHANGED nonReadVars

\* endpoints of every tenant with some committed runs, and no request answered yet
InitRead ==
    /\ repo = [e \in EndpointIds |-> 60]
    /\ deleted = {}
    /\ jobs = [j \in {job_id(e) : e \in EndpointIds} |-> timedelta(60)]
    /\ db \in CommittedDbs
    /\ pc = [t \in Tasks |-> "idle"]
    /\ call = [t \in Tasks |-> NoCall]
    /\ session = [t \in Tasks |-> {}]
    /\ nextRun = Cardinality({row \in db : row.kind = "run"}) + 1
    /\ dispatched = {}
    /\ aborted = {}
    /\ lastTick = NoTick
    /\ maxConcurrent = SCHEDULER_MAX_CONCURRENT
    /\ SyncIdle
    /\ ExecIdle
    /\ GateIdle
    /\ ReadIdle
    /\ AlertIdle
    /\ ScoreIdle
    /\ LaterIdle

NextRead ==
    \/ \E e \in EndpointIds, tenant \in Tenants : get_endpoint(e, tenant)
    \/ \E r \in RunIds, tenant \in Tenants : get_run(r, tenant)
    \/ \E e \in EndpointIds, tenant \in Tenants : list_runs_for_endpoint(e, tenant)
    \/ \E r \in RunIds, tenant \in Tenants : get_anomaly_for_run(r, tenant)
    \/ \E r \in RunIds, tenant \in Tenants : get_risk_for_run(r, tenant)
    \/ \E e \in EndpointIds, tenant \in Tenants : get_performance(e, tenant)

SpecRead == InitRead /\ [][NextRead]_vars

\* C14: the response to a read made for a tenant holds data of that tenant only
\* (endpoint, run, anomaly, risk score, performance statistics); an entity of
\* another tenant reads as not found or empty.
C14_TenantIsolation == readout.owners \subseteq {readout.tenant}

\* ------------------------------------------------------------------------
\* maybe_alert and WebhookClient.send
\* ------------------------------------------------------------------------
RiskLevels == {"LOW", "MEDIUM", "HIGH", "CRITICAL"}

\* values ALERT_MIN_RISK_LEVEL can take from the environment: it is a plain str
MinRiskLevelSettings == RiskLevels \cup {"OFF"}

\* _RISK_RANK.get(level, default)
RISK_RANK(level, default) ==
    CASE level = "LOW" -> 0
      [] level = "MEDIUM" -> 1
      [] level = "HIGH" -> 2
      [] level = "CRITICAL" -> 3
      [] OTHER -> default

meets_threshold_strictly(level) == RISK_RANK(level, 0) > RISK_RANK(ALERT_MIN_RISK_LEVEL, 1)
meets_threshold(level) == RISK_RANK(level, 0) >= RISK_RANK(ALERT_MIN_RISK_LEVEL, 1)

\* what self._client.post(url, json=payload) can end with
PostOutcomes ==
    [kind : {"response"}, status_code : {200, 204, 302, 404, 500}]
        \cup {[kind |-> "timeout", status_code |-> NoStatus],
              [kind |-> "exception", status_code |-> NoStatus]}

\* httpx.Response.is_success
is_success_or_redirect(response) == response.status_code \in 200..399
is_success(response) == response.status_code \in 200..299

\* maybe_alert up to the await of webhook_client.send: the two gates and the payload
MaybeAlertCall ==
    /\ alertPc = "idle"
    /\ IF ~available
       THEN /\ summary' = [alerted |-> FALSE, reason |-> "webhook_unavailable"]
            /\ alertPc' = "done"
       ELSE IF ~meets_threshold(risk_level)
       THEN /\ summary' = [alerted |-> FALSE, reason |-> "below_threshold",
                           risk_level |-> risk_level]
            /\ alertPc' = "done"
       ELSE /\ alertPc' = "send"
            /\ UNCHANGED summary
    /\ UNCHANGED <<available, ALERT_MIN_RISK_LEVEL, risk_level, posts, nonAlertVars>>

\* WebhookClient.send with the client set, and the return of maybe_alert
Send(outcome) ==
    /\ alertPc = "send"
    /\ posts' = Append(posts, outcome)
    /\ LET success == outcome.kind = "response" /\ is_success(outcome)
       IN  summary' = [alerted |-> TRUE, delivered |-> success, risk_level |-> risk_level]
    /\ alertPc' = "done"
    /\ UNCHANGED <<available, ALERT_MIN_RISK_LEVEL, risk_level, nonAlertVars>>

\* a finished pipeline with a risk score, before maybe_alert is called
InitAlert ==
    /\ available \in BOOLEAN
    /\ ALERT_MIN_RISK_LEVEL \in MinRiskLevelSettings
    /\ risk_level \in RiskLevels
    /\ alertPc = "idle"
    /\ posts = <<>>
    /\ summary = PyNone
    /\ PipeIdle
    /\ SyncIdle
    /\ ExecIdle
    /\ GateIdle
    /\ ReadIdle
    /\ ScoreIdle
    /\ LaterIdle

NextAlert ==
    \/ MaybeAlertCall
    \/ \E outcome \in PostOutcomes : Send(outcome)

SpecAlert == InitAlert /\ [][NextAlert]_vars

\* LOW < MEDIUM < HIGH < CRITICAL
Rank(level) == CHOOSE n \in 0..3 : <<"LOW", "MEDIUM", "HIGH", "CRITICAL">>[n + 1] = level

\* C15: with the webhook client available and ALERT_MIN_RISK_LEVEL one of the
\* four levels, maybe_alert goes on to send exactly when the rank of the risk
\* level is at least the rank of the setting; below it no POST is made and
\* the summary says alerted = false with a reason.
C15_ThresholdGate ==
    (available /\ ALERT_MIN_RISK_LEVEL \in RiskLevels /\ alertPc # "idle") =>
        IF Rank(risk_level) >= Rank(ALERT_MIN_RISK_LEVEL)
        THEN alertPc = "send" \/ (Len(posts) = 1 /\ summary.alerted)
        ELSE /\ alertPc = "done"
             /\ posts = <<>>
             /\ ~summary.alerted
             /\ "reason" \in DOMAIN summary

\* an alert at the threshold itself was sent
C15_Witness ==
    /\ available
    /\ ALERT_MIN_RISK_LEVEL = "HIGH"
    /\ risk_level = "HIGH"
    /\ alertPc = "done"
    /\ Len(posts) = 1

\* C16: an alert makes one POST and no more; the summary says delivered
\* exactly when that POST was answered with a 2xx status, and a different
\* answer, a timeout or an exception ends the call with delivered = false.
C16_OnePostNoRetry ==
    /\ Len(posts) <= 1
    /\ (alertPc = "done" /\ summary.alerted) =>
          /\ Len(posts) = 1
          /\ summary.delivered <=>
                (posts[1].kind = "response" /\ posts[1].status_code \in 200..299)

\* a redirect answer was reported as not delivered
C16_Witness ==
    /\ alertPc = "done"
    /\ summary.alerted
    /\ posts = <<[kind |-> "response", status_code |-> 302]>>
    /\ ~summary.delivered

\* ------------------------------------------------------------------------
\* RiskEngine.score
\* ------------------------------------------------------------------------
W_STATUS == 35
W_PERFORMANCE == 25
W_DRIFT == 20
W_AI == 15
W_HISTORY == 5
PERF_MAX_DEVIATION == 300
DRIFT_MAX_DIFFS == 10
HISTORY_MAX_RATE == 50

\* the floats of score are kept as whole numbers of 1/Scale: with whole
\* inputs every product and quotient of score is then a whole number
Scale == 60

\* round(x, 1) of x given in 1/Scale, in tenths; a tie goes to the even tenth
round1(x) ==
    LET step == Scale \div 10
        q == x \div step
        rem == x % step
    IN  IF 2 * rem < step THEN q
        ELSE IF 2 * rem > step THEN q + 1
        ELSE IF q % 2 = 0 THEN q ELSE q + 1

\* _classify, of a score in tenths
classify_above(score) ==
    IF score > 750 THEN "CRITICAL"
    ELSE IF score > 500 THEN "HIGH"
    ELSE IF score > 250 THEN "MEDIUM"
    ELSE "LOW"
classify(score) ==
    IF score >= 750 THEN "CRITICAL"
    ELSE IF score >= 500 THEN "HIGH"
    ELSE IF score >= 250 THEN "MEDIUM"
    ELSE "LOW"

\* performance.deviation_percent is not None
HasDeviation(performance) == performance.present /\ performance.sample_size >= 2

\* component 1 of score
status_score(a) == IF a.is_success THEN 0 ELSE W_STATUS * Scale

\* component 2 of score
performance_score_of_abs(a) ==
    IF HasDeviation(a.performance)
    THEN LET d == a.performance.deviation_percent
             deviation == IF d < 0 THEN 0 - d ELSE d
         IN  (clamp(0, Scale * PERF_MAX_DEVIATION, deviation * Scale) * W_PERFORMANCE)
                 \div PERF_MAX_DEVIATION
    ELSE 0
performance_score(a) ==
    IF HasDeviation(a.performance) /\ a.performance.deviation_percent > 0
    THEN IF a.performance.is_critical_spike THEN W_PERFORMANCE * Scale
         ELSE LET deviation == a.performance.deviation_percent
              IN  (clamp(0, Scale * PERF_MAX_DEVIATION, deviation * Scale) * W_PERFORMANCE)
                      \div PERF_MAX_DEVIATION
    ELSE 0

\* component 3 of score
drift_score(a) ==
    IF a.drift.has_drift
    THEN (clamp(0, Scale * DRIFT_MAX_DIFFS, a.drift.drift_count * Scale) * W_DRIFT)
             \div DRIFT_MAX_DIFFS
    ELSE 0

\* component 4 of score
ai_score(a) ==
    IF a.anomaly.anomaly_detected /\ (a.anomaly.ai_called \/ a.anomaly.used_fallback)
    THEN (a.anomaly.severity_score * Scale * W_AI) \div 100
    ELSE 0

\* component 5 of score
history_score(a) ==
    IF a.failure_rate_percent > 0
    THEN (clamp(0, Scale * HISTORY_MAX_RATE, a.failure_rate_percent * Scale) * W_HISTORY)
             \div HISTORY_MAX_RATE
    ELSE 0

\* RiskEngine.score; the scores of the RiskResult are in tenths
score(a) ==
    LET total == clamp(0, 100 * Scale, status_score(a) + performance_score(a)
                           + drift_score(a) + ai_score(a) + history_score(a))
    IN  [calculated_score |-> round1(total),
         risk_level |-> classify(round1(total)),
         status_score |-> round1(status_score(a)),
         performance_score |-> round1(performance_score(a)),
         drift_score |-> round1(drift_score(a)),
         ai_score |-> round1(ai_score(a)),
         history_score |-> round1(history_score(a))]

\* deviations, diff counts, severities and failure rates of the scored runs
ScoredDeviations == {0 - 50, 0, 50, 149, 150, 300, 400}
ScoredDiffCounts == {0, 1, 5, 10, 12}
ScoredSeverities == {0, 10, 20, 33, 75, 100}
ScoredFailureRates == {0, 10, 25, 50, 100}

\* the PerformanceResult of step 4, or None
ScoredPerformances ==
    {NoPerformance} \cup {PerformanceResult(n, d) : n \in SampleSizes, d \in ScoredDeviations}

\* the DriftAnalysis of step 5
ScoredDrifts == {[has_drift |-> n > 0, drift_count |-> n] : n \in ScoredDiffCounts}

\* the AnomalyResult of step 7: the sentinel, a gateway verdict or the fallback's
ScoredAnomalies ==
    {NO_ANOMALY}
    \cup {AnomalyResult(d, s, 90, None, TRUE, FALSE) : d \in BOOLEAN, s \in ScoredSeverities}
    \cup {AnomalyResult(s >= 20, s, 60, None, FALSE, TRUE) : s \in ScoredSeverities}

\* the failure rate of step 6 counts the run just stored
ScoredRates(success) ==
    IF success THEN ScoredFailureRates \ {100} ELSE ScoredFailureRates \ {0}

\* step 9 of execute_endpoint
Score ==
    /\ risk = NoRisk
    /\ risk' = score(signals)
    /\ UNCHANGED <<signals, nonScoreVars>>

\* the pipeline of one run has reached its risk scoring
InitScore ==
    /\ \E success \in BOOLEAN :
       \E performance \in ScoredPerformances, drift \in ScoredDrifts,
          anomaly \in ScoredAnomalies, rate \in ScoredRates(success) :
            signals = [is_success |-> success, performance |-> performance,
                       drift |-> drift, anomaly |-> anomaly,
                       failure_rate_percent |-> rate]
    /\ risk = NoRisk
    /\ PipeIdle
    /\ SyncIdle
    /\ ExecIdle
    /\ GateIdle
    /\ ReadIdle
    /\ AlertIdle
    /\ LaterIdle

NextScore == Score

SpecScore == InitScore /\ [][NextScore]_vars

\* the bucket table, of a score in tenths
Bucket(tenths) ==
    CASE tenths \in 0..249 -> "LOW"
      [] tenths \in 250..499 -> "MEDIUM"
      [] tenths \in 500..749 -> "HIGH"
      [] tenths \in 750..1000 -> "CRITICAL"
      [] OTHER -> "none"

\* C19: the scorer returns a result for every input; its calculated_score is
\* between 0 and 100 and its risk_level is the bucket of that score.
C19_ScoreInRangeAndBucket ==
    risk # NoRisk =>
        /\ risk.calculated_score \in 0..1000
        /\ risk.risk_level = Bucket(risk.calculated_score)

\* a score of exactly 25.0 was classified MEDIUM
C19_Witness == risk # NoRisk /\ risk.calculated_score = 250 /\ risk.risk_level = "MEDIUM"

\* the score call with one signal replaced
WithSeverity(a, s) == [a EXCEPT !.anomaly.severity_score = s]
WithDeviation(a, d) == [a EXCEPT !.performance.deviation_percent = d]
WithDiffCount(a, n) == [a EXCEPT !.drift.drift_count = n]
WithFailureRate(a, rate) == [a EXCEPT !.failure_rate_percent = rate]

\* C20: with the other inputs of the call unchanged, a larger severity, a
\* larger deviation percent, a larger diff count or a larger failure rate
\* gives a calculated_score that is not smaller than the one returned.
C20_RiskMonotone ==
    risk # NoRisk =>
        /\ \A s \in ScoredSeverities : s >= signals.anomaly.severity_score =>
              score(WithSeverity(signals, s)).calculated_score >= risk.calculated_score
        /\ HasDeviation(signals.performance) =>
              \A d \in ScoredDeviations : d >= signals.performance.deviation_percent =>
                  score(WithDeviation(signals, d)).calculated_score >= risk.calculated_score
        /\ signals.drift.has_drift =>
              \A n \in ScoredDiffCounts : n >= signals.drift.drift_count =>
                  score(WithDiffCount(signals, n)).calculated_score >= risk.calculated_score
        /\ \A rate \in ScoredFailureRates : rate >= signals.failure_rate_percent =>
              score(WithFailureRate(signals, rate)).calculated_score >= risk.calculated_score

\* a run slower than average by less than the spike threshold allows was
\* scored, with an anomaly, drift and earlier failures
C20_Witness ==
    /\ risk # NoRisk
    /\ HasDeviation(signals.performance)
    /\ signals.performance.deviation_percent = 149
    /\ signals.anomaly.anomaly_detected /\ signals.anomaly.severity_score = 33
    /\ signals.drift.drift_count = 5
    /\ signals.failure_rate_percent = 25
    /\ risk.performance_score > 0

\* ------------------------------------------------------------------------
\* SpecFlow: classifier, risk scorer and alert payload of one run
\* ------------------------------------------------------------------------
\* step 9 of execute_endpoint, with the results of steps 3 to 7
ScoreRun ==
    /\ gatePc = "done"
    /\ risk = NoRisk
    /\ signals' = [is_success |-> args.is_success,
                   performance |-> args.performance,
                   drift |-> args.drift,
                   anomaly |-> verdict,
                   failure_rate_percent |-> args.failure_rate_percent]
    /\ risk' = score(signals')
    /\ UNCHANGED <<storeVars, pipeVars, syncVars, execVars, gateVars, readVars, alertVars,
                   laterVars>>

\* "if anomaly and anomaly.ai_called and anomaly.anomaly_detected"
AnomalyAttachedWhenDetected(anomaly) == anomaly.anomaly_detected
AnomalyAttached(anomaly) == anomaly.ai_called /\ anomaly.anomaly_detected

\* build_alert_payload: the dict, as a function of its keys
build_alert_payload(run, perf, drift, anomaly, r) ==
    [event |-> "sentinel_alert",
     timestamp |-> "now",
     endpoint |-> [id |-> "id", name |-> "name", url |-> "url", method |-> "method"],
     run |-> [id |-> "id", status_code |-> run.actual_status,
              response_time_ms |-> run.response_time_ms,
              is_success |-> run.is_success, error_message |-> run.error_message],
     risk |-> [score |-> r.calculated_score, level |-> r.risk_level,
               breakdown |-> [status |-> r.status_score,
                              performance |-> r.performance_score,
                              drift |-> r.drift_score, ai |-> r.ai_score,
                              history |-> r.history_score]]]
    @@ (IF AnomalyAttached(anomaly)
        THEN "anomaly" :> [severity_score |-> anomaly.severity_score,
                           reasoning |-> "reasoning", probable_cause |-> "probable_cause"]
        ELSE <<>>)
    @@ (IF perf.present /\ perf.is_spike
        THEN "performance" :> [current_ms |-> run.response_time_ms,
                               avg_ms |-> "rolling_avg_ms",
                               deviation_percent |-> perf.deviation_percent,
                               is_critical_spike |-> perf.is_critical_spike]
        ELSE <<>>)
    @@ (IF drift.has_drift
        THEN "schema_drift" :> [total_differences |-> drift.drift_count]
        ELSE <<>>)

\* build_alert_payload applied to the PipelineResult of the run
BuildAlertPayload ==
    /\ risk # NoRisk
    /\ payload = NoPayload
    /\ payload' = build_alert_payload(args, signals.performance, signals.drift,
                                      signals.anomaly, risk)
    /\ UNCHANGED <<earlierVars, afterFlowVars>>

InitFlow == InitGate

NextFlow ==
    \/ AnalyseCall
    \/ \E outcome \in GatewayOutcomes : LLMAttempt(outcome)
    \/ PersistAnomaly
    \/ ScoreRun
    \/ BuildAlertPayload

SpecFlow == InitFlow /\ [][NextFlow]_vars

\* C22: a payload has event = "sentinel_alert", timestamp, endpoint, run and
\* risk; it has "anomaly" exactly when the classifier's result is a detected
\* anomaly of the gateway, "performance" exactly when the run is a spike,
\* and "schema_drift", holding the count alone, exactly when there is drift.
C22_PayloadKeys ==
    payload # NoPayload =>
        /\ {"event", "timestamp", "endpoint", "run", "risk"} \subseteq DOMAIN payload
        /\ payload.event = "sentinel_alert"
        /\ "anomaly" \in DOMAIN payload <=> (verdict.ai_called /\ verdict.anomaly_detected)
        /\ "performance" \in DOMAIN payload <=>
               (args.performance.present /\ args.performance.is_spike)
        /\ "schema_drift" \in DOMAIN payload <=> args.drift.has_drift
        /\ args.drift.has_drift => DOMAIN payload.schema_drift = {"total_differences"}

\* a payload with all three optional parts
C22_Witness ==
    /\ payload # NoPayload
    /\ {"anomaly", "performance", "schema_drift"} \subseteq DOMAIN payload

\* a 5xx answer where a 2xx status was expected, with no spike, with no
\* drift (no body: the validator is skipped) and with no gateway
StatusMismatchNoGateway ==
    /\ ~llm_available
    /\ args.actual_status >= 500
    /\ ~args.is_success
    /\ ~args.performance.is_spike
    /\ ~args.drift.has_drift

\* C23: for that run the pipeline gives is_success = false, a status
\* component of 35, a fallback verdict with anomaly_detected = true and a
\* severity of 50 (65 with a failure rate of 30 % or more), the risk level
\* HIGH, and a payload with "anomaly" and without "performance" and
\* "schema_drift".
C23_StatusMismatchScenario ==
    (StatusMismatchNoGateway /\ payload # NoPayload) =>
        /\ ~signals.is_success
        /\ risk.status_score = 350
        /\ verdict.used_fallback /\ verdict.anomaly_detected
        /\ verdict.severity_score \in 50..65
        /\ risk.risk_level = "HIGH"
        /\ "anomaly" \in DOMAIN payload
        /\ "performance" \notin DOMAIN payload
        /\ "schema_drift" \notin DOMAIN payload

\* ------------------------------------------------------------------------
\* SpecDiff: compute_diff(expected, actual)
\* ------------------------------------------------------------------------
\* keys of the compared objects, and their sorted order
DiffKeys == {"a", "b"}
KeyOrder == <<"a", "b">>

\* a JSON object is a function on DiffKeys; a key it does not have maps to a
\* value of type "absent". A value is [t, fields, items]: t is type(v).__name__,
\* fields the object of a dict or of the first item of a list of dicts, items
\* says what a list holds
Scalars == {"NoneType", "int", "str"}
InnerValues == [t : Scalars \cup {"absent"}]
InnerObjects == {o \in [DiffKeys -> InnerValues] : o["b"].t = "absent"}
NoFields == [k \in DiffKeys |-> [t |-> "absent"]]
JsonValues ==
    [t : Scalars \cup {"absent"}, fields : {NoFields}, items : {"none"}]
    \cup [t : {"dict"}, fields : InnerObjects, items : {"none"}]
    \cup [t : {"list"}, fields : {NoFields}, items : {"empty", "scalars"}]
    \cup [t : {"list"}, fields : InnerObjects, items : {"dicts"}]
JsonObjects == [DiffKeys -> JsonValues]

\* dict.keys()
keys(object) == {k \in DiffKeys : object[k].t # "absent"}

\* sorted(keys)
sorted(ks) == SelectSeq(KeyOrder, LAMBDA k : k \in ks)

\* isinstance(v, dict); a non-empty list whose first item is a dict
is_dict(v) == v.t = "dict"
is_list_of_dicts(v) == v.t = "list" /\ v.items = "dicts"

\* the three lists _walk appends to
NoDifferences == [missing |-> <<>>, new |-> <<>>, type_mm |-> <<>>]

\* concatenation of the lists of two walks
Joined(d1, d2) ==
    [missing |-> d1.missing \o d2.missing, new |-> d1.new \o d2.new,
     type_mm |-> d1.type_mm \o d2.type_mm]

\* the keys of the second loop of _walk
NewKeysNone(e, a) == {}
NewKeys(e, a) == keys(a) \ keys(e)

RECURSIVE CommonLoop(_, _, _, _)
RECURSIVE walk(_, _, _)

\* _walk: paths are kept as sequences of their parts
walk(e, a, prefix) ==
    LET missing == [i \in 1..Len(sorted(keys(e) \ keys(a))) |->
                        prefix \o <<sorted(keys(e) \ keys(a))[i]>>]
        new == [i \in 1..Len(sorted(NewKeys(e, a))) |->
                        prefix \o <<sorted(NewKeys(e, a))[i]>>]
    IN  Joined([missing |-> missing, new |-> new, type_mm |-> <<>>],
               CommonLoop(sorted(keys(e) \cap keys(a)), e, a, prefix))

\* the third loop of _walk, over the keys present in both
CommonLoop(todo, e, a, prefix) ==
    IF todo = <<>> THEN NoDifferences
    ELSE LET key == Head(todo)
             path == prefix \o <<key>>
             exp_val == e[key]
             act_val == a[key]
             mismatch == [missing |-> <<>>, new |-> <<>>, type_mm |-> <<path>>]
             here ==
                 IF act_val.t = "NoneType" /\ exp_val.t # "NoneType" THEN mismatch
                 ELSE IF exp_val.t = "NoneType" THEN NoDifferences
                 ELSE IF exp_val.t # act_val.t THEN mismatch
                 ELSE IF is_dict(exp_val) /\ is_dict(act_val)
                      THEN walk(exp_val.fields, act_val.fields, path \o <<".">>)
                 ELSE IF is_list_of_dicts(exp_val) /\ is_list_of_dicts(act_val)
                      THEN walk(exp_val.fields, act_val.fields, path \o <<"[].">>)
                 ELSE NoDifferences
         IN  Joined(here, CommonLoop(Tail(todo), e, a, prefix))

\* compute_diff
compute_diff(e, a) ==
    LET d == walk(e, a, <<>>)
        total == Len(d.missing) + Len(d.new) + Len(d.type_mm)
    IN  [has_drift |-> total > 0, missing_fields |-> d.missing, new_fields |-> d.new,
         type_mismatches |-> d.type_mm, total_differences |-> total]

\* SchemaValidator.validate calls compute_diff with the two objects
ComputeDiff ==
    /\ diff = NoDiff
    /\ diff' = compute_diff(expected_schema, actual_body)
    /\ UNCHANGED <<expected_schema, actual_body, earlierVars, flowVars, afterDiffVars>>

\* an expected schema and a response body, both JSON objects
InitDiff ==
    /\ expected_schema \in JsonObjects
    /\ actual_body \in JsonObjects
    /\ diff = NoDiff
    /\ PipeIdle
    /\ SyncIdle
    /\ ExecIdle
    /\ GateIdle
    /\ ReadIdle
    /\ AlertIdle
    /\ ScoreIdle
    /\ FlowIdle
    /\ PerfIdle
    /\ LifeIdle
    /\ RunIdle
    /\ TailIdle

NextDiff == ComputeDiff

SpecDiff == InitDiff /\ [][NextDiff]_vars

\* compute_diff with the two objects exchanged
Swapped == compute_diff(actual_body, expected_schema)

\* the missing and new counts of the exchanged comparison are those of diff, swapped
CountsSwapped ==
    /\ Len(Swapped.missing_fields) = Len(diff.new_fields)
    /\ Len(Swapped.new_fields) = Len(diff.missing_fields)

\* C24 as stated: for every pair of objects, null values and nested objects
\* included, the exchanged comparison has the same total_differences, and
\* its missing and new counts are those of the comparison, swapped.
C24_DiffSymmetric ==
    diff # NoDiff => (Swapped.total_differences = diff.total_differences /\ CountsSwapped)

RECURSIVE NullOnOneSide(_, _)
\* some field compared by the walk is null in one object and not in the other
NullOnOneSide(e, a) ==
    \E k \in keys(e) \cap keys(a) :
        \/ (e[k].t = "NoneType") # (a[k].t = "NoneType")
        \/ /\ e[k].t = a[k].t
           /\ is_dict(e[k]) \/ (is_list_of_dicts(e[k]) /\ is_list_of_dicts(a[k]))
           /\ NullOnOneSide(e[k].fields, a[k].fields)

\* C24 amended: the missing and new counts are swapped for every pair, and
\* total_differences is the same for every pair in which no compared field
\* is null in one object and not null in the other.
C24_DiffSymmetricWithoutNull ==
    diff # NoDiff =>
        /\ CountsSwapped
        /\ ~NullOnOneSide(expected_schema, actual_body) =>
              Swapped.total_differences = diff.total_differences

\* nested objects that differ in a type, with a field missing and a field
\* new at the top, and a field null in both
C24_Witness ==
    /\ diff # NoDiff
    /\ ~NullOnOneSide(expected_schema, actual_body)
    /\ Len(diff.type_mismatches) = 1
    /\ expected_schema["a"].t = "dict" /\ actual_body["a"].t = "dict"
    /\ expected_schema["a"].fields["a"].t = "int"

\* ------------------------------------------------------------------------
\* SpecPerf: PerformanceTracker.analyse(current_time_ms, historical_times)
\* ------------------------------------------------------------------------
\* longest history handed to analyse
MaxHistory == 3

DEFAULT_WINDOW_SIZE == 20

\* response times in ms
ResponseTimes == {0, 2, 3, 5}

\* an optional float: None, or a value in hundredths
Absent == [none |-> TRUE, value |-> 0]
Some(x) == [none |-> FALSE, value |-> x]

\* num / den rounded to the nearest integer, ties to even
round_div(num, den) ==
    LET n == IF num < 0 THEN 0 - num ELSE num
        q == n \div den
        r == n % den
        up == (2 * r > den) \/ (2 * r = den /\ q % 2 = 1)
        m == IF up THEN q + 1 ELSE q
    IN  IF num < 0 THEN 0 - m ELSE m

RECURSIVE sum(_)
sum(xs) == IF xs = <<>> THEN 0 ELSE Head(xs) + sum(Tail(xs))

\* sum of squares
RECURSIVE sum_sq(_)
sum_sq(xs) == IF xs = <<>> THEN 0 ELSE (Head(xs) * Head(xs)) + sum_sq(Tail(xs))

\* sorted(window)
sorted_times(xs) ==
    CHOOSE s \in [1..Len(xs) -> ResponseTimes] :
        /\ \A i \in 1..(Len(xs) - 1) : s[i] <= s[i + 1]
        /\ \A v \in ResponseTimes :
              Cardinality({i \in 1..Len(xs) : s[i] = v}) = Cardinality({i \in 1..Len(xs) : xs[i] = v})

\* round(statistics.mean(window), 2), in hundredths
mean_hundredths(window) == round_div(sum(window) * 100, Len(window))

\* round(statistics.median(window), 2), in hundredths
median_hundredths(window) ==
    LET s == sorted_times(window)
        n == Len(window)
    IN  IF n % 2 = 1 THEN s[(n + 1) \div 2] * 100
        ELSE round_div((s[n \div 2] + s[(n \div 2) + 1]) * 100, 2)

\* round(statistics.stdev(window), 2), in hundredths: the sample variance is
\* (n * sum_sq - sum^2) / (n * (n - 1)), and the result is the integer
\* nearest to 100 times its square root
stdev_hundredths(window) ==
    LET n == Len(window)
        num == ((n * sum_sq(window)) - (sum(window) * sum(window))) * 10000
        den == n * (n - 1)
    IN  CHOOSE h \in 0..1000 :
            /\ ((2 * h) - 1) * ((2 * h) - 1) * den <= 4 * num \/ h = 0
            /\ 4 * num < ((2 * h) + 1) * ((2 * h) + 1) * den

\* round(((current_time_ms - rolling_avg) / rolling_avg) * 100, 2) when the
\* average is positive, else 0.0; in hundredths of a percent
deviation_pct(current, window) ==
    IF sum(window) > 0
    THEN round_div(((current * Len(window)) - sum(window)) * 10000, sum(window))
    ELSE 0

\* deviation_pct >= self._spike_threshold
is_spike_below_critical(deviation) ==
    deviation >= SPIKE_THRESHOLD_PERCENT * 100 /\ deviation < CRITICAL_SPIKE_THRESHOLD_PERCENT * 100
is_spike(deviation) == deviation >= SPIKE_THRESHOLD_PERCENT * 100

\* deviation_pct >= self._critical_spike_threshold
is_critical(deviation) == deviation >= CRITICAL_SPIKE_THRESHOLD_PERCENT * 100

\* PerformanceTracker.analyse
analyse(current, times) ==
    LET window == SubSeq(times, 1, IF Len(times) < DEFAULT_WINDOW_SIZE THEN Len(times) ELSE DEFAULT_WINDOW_SIZE)
        sample_size == Len(window)
    IN  IF sample_size < 2
        THEN [current_time_ms |-> current * 100,
              rolling_avg_ms |-> IF sample_size = 1 THEN Some(window[1] * 100) ELSE Absent,
              rolling_median_ms |-> IF sample_size = 1 THEN Some(window[1] * 100) ELSE Absent,
              rolling_stddev_ms |-> Absent,
              deviation_percent |-> Absent,
              is_spike |-> FALSE,
              is_critical_spike |-> FALSE,
              sample_size |-> sample_size]
        ELSE [current_time_ms |-> current * 100,
              rolling_avg_ms |-> Some(mean_hundredths(window)),
              rolling_median_ms |-> Some(median_hundredths(window)),
              rolling_stddev_ms |-> Some(stdev_hundredths(window)),
              deviation_percent |-> Some(deviation_pct(current, window)),
              is_spike |-> is_spike(deviation_pct(current, window)),
              is_critical_spike |-> is_critical(deviation_pct(current, window)),
              sample_size |-> sample_size]

\* PerformanceResult.has_enough_data
has_enough_data(perf) == perf.sample_size >= 3

\* analyse is called with the current time and the fetched history
AnalysePerformance ==
    /\ snapshot = NotAnalysed
    /\ snapshot' = analyse(current_time_ms, historical_times)
    /\ UNCHANGED <<historical_times, current_time_ms, earlierVars, flowVars, diffVars,
                   afterPerfVars>>

Histories == UNION {[1..n -> ResponseTimes] : n \in 0..MaxHistory}

InitPerf ==
    /\ historical_times \in Histories
    /\ current_time_ms \in ResponseTimes
    /\ snapshot = NotAnalysed
    /\ PipeIdle
    /\ SyncIdle
    /\ ExecIdle
    /\ GateIdle
    /\ ReadIdle
    /\ AlertIdle
    /\ ScoreIdle
    /\ FlowIdle
    /\ DiffIdle
    /\ LifeIdle
    /\ RunIdle
    /\ TailIdle

NextPerf == AnalysePerformance

SpecPerf == InitPerf /\ [][NextPerf]_vars

\* C25: with fewer than 3 samples no spike flag is raised and no
\* deviation_percent is reported; has_enough_data holds exactly when
\* sample_size >= 3.
C25_NoSpikeBelowThreeSamples ==
    snapshot # NotAnalysed =>
        /\ has_enough_data(snapshot) <=> snapshot.sample_size >= 3
        /\ snapshot.sample_size < 3 =>
              /\ ~snapshot.is_spike
              /\ ~snapshot.is_critical_spike
              /\ snapshot.deviation_percent.none

\* C26: with fewer than 2 samples the standard deviation and the deviation
\* are absent and both flags are false, and with one sample the mean is that
\* sample; when the rolling mean analyse computed is 0, the deviation is 0
\* and no spike is raised; a critical spike is a spike.
C26_SnapshotInvariant ==
    snapshot # NotAnalysed =>
        /\ snapshot.sample_size < 2 =>
              /\ snapshot.rolling_stddev_ms.none
              /\ snapshot.deviation_percent.none
              /\ ~snapshot.is_spike
              /\ ~snapshot.is_critical_spike
        /\ snapshot.sample_size = 1 =>
              snapshot.rolling_avg_ms = Some(historical_times[1] * 100)
        /\ (snapshot.sample_size >= 2 /\ sum(historical_times) = 0) =>
              /\ snapshot.deviation_percent = Some(0)
              /\ ~snapshot.is_spike
              /\ ~snapshot.is_critical_spike
        /\ snapshot.is_critical_spike => snapshot.is_spike

\* a critical spike over a history of two samples
C26_Witness ==
    /\ snapshot # NotAnalysed
    /\ snapshot.sample_size = 2
    /\ snapshot.is_critical_spike
    /\ snapshot.deviation_percent = Some(15000)

\* ------------------------------------------------------------------------
\* MonitorScheduler: startup, shutdown, sync_jobs
\* ------------------------------------------------------------------------
\* MonitorScheduler.startup: nothing when the scheduler is disabled or
\* already created, else a new scheduler, started, with no job
startup_always ==
    /\ scheduler' = IF SCHEDULER_ENABLED THEN "running" ELSE scheduler
    /\ scheduled' = IF SCHEDULER_ENABLED THEN {} ELSE scheduled
    /\ UNCHANGED <<SCHEDULER_ENABLED, endpoint_rows, sync_result>>
startup ==
    /\ scheduler' = IF SCHEDULER_ENABLED /\ scheduler = "None" THEN "running" ELSE scheduler
    /\ scheduled' = IF SCHEDULER_ENABLED /\ scheduler = "None" THEN {} ELSE scheduled
    /\ UNCHANGED <<SCHEDULER_ENABLED, endpoint_rows, sync_result>>

\* MonitorScheduler.shutdown: the scheduler and its jobs are dropped
shutdown_keeps_jobs ==
    /\ scheduler' = "None"
    /\ scheduled' = scheduled
    /\ UNCHANGED <<SCHEDULER_ENABLED, endpoint_rows, sync_result>>
shutdown ==
    /\ scheduler' = "None"
    /\ scheduled' = {}
    /\ UNCHANGED <<SCHEDULER_ENABLED, endpoint_rows, sync_result>>

\* MonitorScheduler.sync_jobs: without a scheduler the summary is
\* scheduler_disabled; else jobs of deleted endpoints are removed and jobs of
\* new endpoints added, and the summary is synced
sync_jobs ==
    /\ sync_result' = IF scheduler = "None" THEN "scheduler_disabled" ELSE "synced"
    /\ scheduled' = IF scheduler = "None" THEN scheduled
                    ELSE (scheduled \cap endpoint_rows) \cup (endpoint_rows \ scheduled)
    /\ UNCHANGED <<SCHEDULER_ENABLED, scheduler, endpoint_rows>>

\* ------------------------------------------------------------------------
\* SpecLife: the lifespan of the process
\* ------------------------------------------------------------------------
Clients == {"api_runner", "llm_client", "webhook_client"}

Call(obj, method) == [obj |-> obj, method |-> method]

\* the calls of lifespan(), in order; "yield" is where the application serves
lifespan_scheduler_first ==
    <<Call("engine", "create_all"), Call("monitor_scheduler", "startup"),
      Call("monitor_scheduler", "sync_jobs"), Call("api_runner", "startup"),
      Call("llm_client", "startup"), Call("webhook_client", "startup"),
      Call("app", "yield"), Call("monitor_scheduler", "shutdown"),
      Call("webhook_client", "shutdown"), Call("llm_client", "shutdown"),
      Call("api_runner", "shutdown"), Call("engine", "dispose")>>
lifespan ==
    <<Call("engine", "create_all"), Call("api_runner", "startup"),
      Call("llm_client", "startup"), Call("webhook_client", "startup"),
      Call("monitor_scheduler", "startup"), Call("monitor_scheduler", "sync_jobs"),
      Call("app", "yield"), Call("monitor_scheduler", "shutdown"),
      Call("webhook_client", "shutdown"), Call("llm_client", "shutdown"),
      Call("api_runner", "shutdown"), Call("engine", "dispose")>>

\* lifespan() is about to make this call
at(obj, method) == lifePc \in 1..Len(lifespan) /\ lifespan[lifePc] = Call(obj, method)

\* engine.begin / create_all, and engine.dispose
Engine(method) ==
    /\ at("engine", method)
    /\ lifePc' = lifePc + 1
    /\ UNCHANGED <<clientVars, schedVars, earlierVars, flowVars, diffVars, perfVars,
                   afterLifeVars>>

\* startup() of a client: the ApiRunner always creates its client, the
\* LLMClient and the WebhookClient only when their settings are complete
ClientStartup(c) ==
    /\ at(c, "startup")
    /\ lifePc' = lifePc + 1
    /\ started_clients' = started_clients \cup {c}
    /\ open_clients' = IF c = "api_runner" \/ c \in configured
                       THEN open_clients \cup {c} ELSE open_clients
    /\ UNCHANGED <<stopped_clients, configured, schedVars, earlierVars, flowVars, diffVars,
                   perfVars, afterLifeVars>>

\* shutdown() of a client closes the client it has
ClientShutdown(c) ==
    /\ at(c, "shutdown")
    /\ lifePc' = lifePc + 1
    /\ stopped_clients' = stopped_clients \cup {c}
    /\ open_clients' = open_clients \ {c}
    /\ UNCHANGED <<started_clients, configured, schedVars, earlierVars, flowVars, diffVars,
                   perfVars, afterLifeVars>>

LifeSchedulerStartup ==
    /\ at("monitor_scheduler", "startup")
    /\ lifePc' = lifePc + 1
    /\ startup
    /\ UNCHANGED <<clientVars, earlierVars, flowVars, diffVars, perfVars,
                   afterLifeVars>>

LifeSyncJobs ==
    /\ at("monitor_scheduler", "sync_jobs")
    /\ lifePc' = lifePc + 1
    /\ sync_jobs
    /\ UNCHANGED <<clientVars, earlierVars, flowVars, diffVars, perfVars,
                   afterLifeVars>>

LifeSchedulerShutdown ==
    /\ at("monitor_scheduler", "shutdown")
    /\ lifePc' = lifePc + 1
    /\ shutdown
    /\ UNCHANGED <<clientVars, earlierVars, flowVars, diffVars, perfVars,
                   afterLifeVars>>

\* POST /scheduler/sync while the application serves
ApiSyncJobs ==
    /\ at("app", "yield")
    /\ sync_jobs
    /\ UNCHANGED <<lifePc, clientVars, earlierVars, flowVars, diffVars, perfVars,
                   afterLifeVars>>

\* POST /endpoints while the application serves: a new row, no job yet
ApiCreateEndpoint(e) ==
    /\ at("app", "yield")
    /\ e \notin endpoint_rows
    /\ endpoint_rows' = endpoint_rows \cup {e}
    /\ UNCHANGED <<lifePc, clientVars, SCHEDULER_ENABLED, scheduler, scheduled, sync_result,
                   earlierVars, flowVars, diffVars, perfVars,
                   afterLifeVars>>

\* DELETE /endpoints/{id} while the application serves: the row goes, and
\* its job when the scheduler runs
ApiDeleteEndpoint(e) ==
    /\ at("app", "yield")
    /\ e \in endpoint_rows
    /\ endpoint_rows' = endpoint_rows \ {e}
    /\ scheduled' = IF scheduler = "running" THEN scheduled \ {e} ELSE scheduled
    /\ UNCHANGED <<lifePc, clientVars, SCHEDULER_ENABLED, scheduler, sync_result,
                   earlierVars, flowVars, diffVars, perfVars,
                   afterLifeVars>>

\* the server is told to stop
ServerStops ==
    /\ at("app", "yield")
    /\ lifePc' = lifePc + 1
    /\ UNCHANGED <<clientVars, schedVars, earlierVars, flowVars, diffVars, perfVars,
                   afterLifeVars>>

InitLife ==
    /\ lifePc = 1
    /\ NoClients
    /\ configured \in SUBSET {"llm_client", "webhook_client"}
    /\ SCHEDULER_ENABLED \in BOOLEAN
    /\ NoScheduler
    /\ endpoint_rows \in SUBSET SyncEndpointIds
    /\ PipeIdle
    /\ SyncIdle
    /\ ExecIdle
    /\ GateIdle
    /\ ReadIdle
    /\ AlertIdle
    /\ ScoreIdle
    /\ FlowIdle
    /\ DiffIdle
    /\ PerfIdle
    /\ RunIdle
    /\ TailIdle

NextLife ==
    \/ \E method \in {"create_all", "dispose"} : Engine(method)
    \/ \E c \in Clients : ClientStartup(c)
    \/ \E c \in Clients : ClientShutdown(c)
    \/ LifeSchedulerStartup
    \/ LifeSyncJobs
    \/ LifeSchedulerShutdown
    \/ ApiSyncJobs
    \/ \E e \in SyncEndpointIds : ApiCreateEndpoint(e)
    \/ \E e \in SyncEndpointIds : ApiDeleteEndpoint(e)
    \/ ServerStops

SpecLife == InitLife /\ [][NextLife]_vars

\* position of a call in lifespan()
IndexOf(obj, method) == CHOOSE i \in 1..Len(lifespan) : lifespan[i] = Call(obj, method)

\* C27: the three clients are started before the scheduler is started and
\* before any job is scheduled, and stopped only after the scheduler has
\* been stopped; no job is scheduled while a client has not been started.
C27_ClientsAroundScheduler ==
    /\ lifePc > IndexOf("monitor_scheduler", "startup") => started_clients = Clients
    /\ scheduler = "running" => (started_clients = Clients /\ stopped_clients = {})
    /\ scheduled # {} => (started_clients = Clients /\ stopped_clients = {})
    /\ stopped_clients # {} =>
          (lifePc > IndexOf("monitor_scheduler", "shutdown") /\ scheduler = "None")

\* jobs scheduled while the application serves
C27_Witness ==
    /\ at("app", "yield")
    /\ scheduled = SyncEndpointIds
    /\ started_clients = Clients
    /\ open_clients = {"api_runner"}

\* ------------------------------------------------------------------------
\* SpecSched: the methods of MonitorScheduler called in any order
\* ------------------------------------------------------------------------
Startup ==
    /\ startup
    /\ UNCHANGED <<lifePc, clientVars, earlierVars, flowVars, diffVars, perfVars,
                   afterLifeVars>>

Shutdown ==
    /\ scheduler # "None"
    /\ shutdown
    /\ UNCHANGED <<lifePc, clientVars, earlierVars, flowVars, diffVars, perfVars,
                   afterLifeVars>>

SyncJobs ==
    /\ sync_jobs
    /\ UNCHANGED <<lifePc, clientVars, earlierVars, flowVars, diffVars, perfVars,
                   afterLifeVars>>

\* an endpoint row is inserted or deleted
RowsChange(e) ==
    /\ endpoint_rows' = IF e \in endpoint_rows THEN endpoint_rows \ {e}
                        ELSE endpoint_rows \cup {e}
    /\ UNCHANGED <<lifePc, clientVars, SCHEDULER_ENABLED, scheduler, scheduled, sync_result,
                   earlierVars, flowVars, diffVars, perfVars,
                   afterLifeVars>>

InitSched ==
    /\ lifePc = 0
    /\ NoClients
    /\ configured = {}
    /\ SCHEDULER_ENABLED \in BOOLEAN
    /\ NoScheduler
    /\ endpoint_rows \in SUBSET SyncEndpointIds
    /\ PipeIdle
    /\ SyncIdle
    /\ ExecIdle
    /\ GateIdle
    /\ ReadIdle
    /\ AlertIdle
    /\ ScoreIdle
    /\ FlowIdle
    /\ DiffIdle
    /\ PerfIdle
    /\ RunIdle
    /\ TailIdle

NextSched ==
    \/ Startup
    \/ Shutdown
    \/ SyncJobs
    \/ \E e \in SyncEndpointIds : RowsChange(e)

SpecSched == InitSched /\ [][NextSched]_vars

\* C28: startup() on a stopped scheduler makes it running with no job when
\* SCHEDULER_ENABLED is true and leaves it stopped when false; startup() on a
\* running scheduler changes nothing, its jobs are kept; sync_jobs() on a
\* stopped scheduler adds no job and reports scheduler_disabled.
C28_StartupAndSyncContract ==
    [][/\ (Startup /\ scheduler = "None" /\ SCHEDULER_ENABLED) =>
              (scheduler' = "running" /\ scheduled' = {})
       /\ (Startup /\ scheduler = "None" /\ ~SCHEDULER_ENABLED) =>
              (scheduler' = "None" /\ scheduled' = {})
       /\ (Startup /\ scheduler = "running") =>
              (scheduler' = "running" /\ scheduled' = scheduled)
       /\ (SyncJobs /\ scheduler = "None") =>
              (scheduled' = {} /\ sync_result' = "scheduler_disabled")]_vars

\* a running scheduler that holds jobs, after a sync
C28_Witness ==
    /\ lifePc = 0
    /\ scheduler = "running"
    /\ scheduled = SyncEndpointIds
    /\ sync_result = "synced"

\* ------------------------------------------------------------------------
\* SpecRun: executions of one endpoint by RunnerService.execute_endpoint,
\* each persisted as an ApiRun
\* ------------------------------------------------------------------------
\* executions of the endpoint
MaxExecutions == 2

\* "limit=20" of the history read
HISTORY_LIMIT == 20

\* what the transport does with one request: a response after 40 ms, or an
\* exception after 900 ms
RunOutcomes ==
    [kind : {"response"}, status : Statuses, body : {"object"}, ms : {40}]
    \cup [kind : {"TimeoutException", "ConnectError"},
          status : {NoStatus}, body : {None}, ms : {900}]

\* ApiRun(...) of step 4: the fields of the result execute returned
ApiRun(r) ==
    [status_code |-> r.status_code, response_time_ms |-> r.response_time_ms,
     response_body |-> r.response_body, is_success |-> r.is_success,
     error_message |-> r.error_message]

\* the rows an execution adds: one, from the result
RunsOfAttempts(r, tried) == [i \in 1..Len(tried) |-> ApiRun(tried[i])]
RunsOfExecution(r, tried) == <<ApiRun(r)>>

\* ApiRunRepository.get_recent_times: the response times that are not null,
\* newest first, at most limit of them
recent_times(rows, limit) ==
    LET timed == SelectSeq(rows, LAMBDA row : row.response_time_ms # NoTime)
        n == Len(timed)
    IN  [i \in 1..(IF n < limit THEN n ELSE limit) |-> timed[n + 1 - i].response_time_ms]

\* step 4 of execute_endpoint: the result is persisted as one ApiRun; the
\* service is then done with the executor
PersistRun ==
    /\ execPc = "done"
    /\ result # PyNone
    /\ Len(executions) < MaxExecutions
    /\ run_rows' = run_rows \o RunsOfExecution(result, attempts)
    /\ executions' = Append(executions, attempts)
    /\ execPc' = "idle"
    /\ cfg' = NoConfig
    /\ attempt' = 0
    /\ last_result' = PyNone
    /\ attempts' = <<>>
    /\ sleeps' = <<>>
    /\ result' = PyNone
    /\ UNCHANGED <<client, expected_status, storeVars, pipeVars, syncVars, gateVars, readVars,
                   alertVars, scoreVars, flowVars, diffVars, perfVars, lifeVars,
                   afterRunVars>>

\* the executor started by the lifespan; the service passes no config
InitRun ==
    /\ client = TRUE
    /\ cfg = NoConfig
    /\ expected_status \in ExpectedStatuses
    /\ execPc = "idle"
    /\ attempt = 0
    /\ last_result = PyNone
    /\ attempts = <<>>
    /\ sleeps = <<>>
    /\ result = PyNone
    /\ run_rows = <<>>
    /\ executions = <<>>
    /\ SyncIdle
    /\ PipeIdle
    /\ GateIdle
    /\ ReadIdle
    /\ AlertIdle
    /\ ScoreIdle
    /\ FlowIdle
    /\ DiffIdle
    /\ PerfIdle
    /\ LifeIdle
    /\ TailIdle

NextRun ==
    \/ ExecuteCall
    \/ \E outcome \in RunOutcomes : Attempt(outcome)
    \/ Exhausted
    \/ PersistRun

SpecRun == InitRun /\ [][NextRun]_vars

\* the result of the last attempt of an execution
FinalAttempt(i) == executions[i][Len(executions[i])]

\* C29: each execution persists one Run, and the Run carries the status,
\* the error message and the response time of the last HTTP attempt; the
\* response-time history later runs read holds only times of last attempts.
C29_OneRunPerExecution ==
    /\ Len(run_rows) = Len(executions)
    /\ \A i \in 1..Len(executions) :
          i <= Len(run_rows) =>
              /\ run_rows[i].status_code = FinalAttempt(i).status_code
              /\ run_rows[i].error_message = FinalAttempt(i).error_message
              /\ run_rows[i].response_time_ms = FinalAttempt(i).response_time_ms
              /\ run_rows[i].is_success = FinalAttempt(i).is_success
    /\ LET history == recent_times(run_rows, HISTORY_LIMIT)
       IN  /\ Len(history) <= Len(executions)
           /\ \A j \in 1..Len(history) :
                 \E i \in 1..Len(executions) :
                     history[j] = FinalAttempt(i).response_time_ms

\* the first execution timed out after 900 ms and then got a 200 in 40 ms;
\* its Run has status 200 and no error, and after a second execution the
\* history is 40, 40
C29_Witness ==
    /\ Len(executions) = 2
    /\ Len(executions[1]) = 2
    /\ executions[1][1].error_message = "Timeout after"
    /\ executions[1][1].response_time_ms = 900
    /\ Len(run_rows) = 2
    /\ run_rows[1].status_code = 200
    /\ run_rows[1].error_message = None
    /\ recent_times(run_rows, HISTORY_LIMIT) = <<40, 40>>

\* ------------------------------------------------------------------------
\* SpecRule: AnomalyEngine.analyse without a gateway, which scores with
\* _rule_based_analysis
\* ------------------------------------------------------------------------
\* results of the executor: a response with the expected status or another
\* one, or a failure with an error message
RuleRuns ==
    {RunResult(st, 40, "object", ok, None) : st \in {200, 404, 500}, ok \in BOOLEAN}
    \cup {RunResult(NoStatus, NoTime, None, FALSE, m) :
            m \in {"Timeout after", "Connection error", "HTTP error",
                   "Connection error: connect timeout"}}

InitRule ==
    /\ llm_available = FALSE
    /\ metrics = ZeroMetrics
    /\ \E run \in RuleRuns :
       \E perf \in PerformanceResults(run), drift \in DriftAnalyses(run),
          rate \in FailureRates(run) :
            args = analyse_args(run, perf, drift, rate)
    /\ gatePc = "idle"
    /\ llm_attempt = 0
    /\ prompt_built = FALSE
    /\ last_error = NoError
    /\ llm_sleeps = <<>>
    /\ verdict = NoVerdict
    /\ anomaly_record = NoRecord
    /\ ExecIdle
    /\ SyncIdle
    /\ PipeIdle
    /\ RestIdle

NextRule == AnalyseCall

SpecRule == InitRule /\ [][NextRule]_vars

\* the sum of the additions of every row of the rule table whose condition holds
RuleTableSum(a) ==
    (IF ~a.is_success /\ a.actual_status = NoStatus THEN 60 ELSE 0)
    + (IF a.actual_status # NoStatus /\ a.actual_status >= 500 THEN 50 ELSE 0)
    + (IF a.actual_status # NoStatus /\ a.actual_status >= 400 /\ ~a.is_success THEN 25 ELSE 0)
    + (IF "timeout" \in Keywords(a.error_message) THEN 20 ELSE 0)
    + (IF "connection" \in Keywords(a.error_message) THEN 30 ELSE 0)
    + (IF a.performance.present /\ a.performance.is_critical_spike THEN 35 ELSE 0)
    + (IF a.performance.present /\ a.performance.is_spike /\ ~a.performance.is_critical_spike
       THEN 20 ELSE 0)
    + (IF a.drift.has_drift /\ a.drift.drift_count >= 5 THEN 25 ELSE 0)
    + (IF a.drift.has_drift /\ a.drift.drift_count \in 1..4 THEN 10 ELSE 0)
    + (IF a.failure_rate_percent >= 30 THEN 15 ELSE 0)

\* C31: the fallback severity is min(100, sum of the additions of every row
\* of the rule table whose condition holds); an error message with both
\* "timeout" and "connection" adds 20 + 30 and a status >= 500 adds 50.
C31_FallbackAdditive ==
    (verdict # NoVerdict /\ verdict.used_fallback) =>
        verdict.severity_score = clamp(0, 100, RuleTableSum(args))

\* ------------------------------------------------------------------------
\* SpecHist: execute_endpoint stores the Run and reads the history for the
\* performance analysis
\* ------------------------------------------------------------------------
\* most prior runs of the endpoint
MaxPriorRuns == 21

\* response times of prior runs: all equal, all different, or with failed
\* runs that have none
PriorTime(pattern, i) ==
    CASE pattern = "flat" -> 40
      [] pattern = "distinct" -> 100 + i
      [] OTHER -> IF i % 3 = 0 THEN NoTime ELSE 100 + i

PriorRows(n, pattern) ==
    [i \in 1..n |->
        LET t == PriorTime(pattern, i)
        IN  IF t = NoTime THEN ApiRun(RunResult(NoStatus, NoTime, None, FALSE, "Connection error"))
            ELSE ApiRun(RunResult(200, t, "object", TRUE, None))]

\* the result of the current run: a response, or a failure without a time
CurrentResults ==
    {RunResult(200, t, "object", TRUE, None) : t \in {40, 7}}
    \cup {RunResult(NoStatus, NoTime, None, FALSE, "Connection error")}

\* "if historical and historical[0] == result.response_time_ms:
\*      historical = historical[1:]"
drop_first_if_equal(times, current) ==
    IF times # <<>> /\ times[1] = current THEN Tail(times) ELSE times

\* step 4 of execute_endpoint: the Run is created and flushed, and when it
\* has a response time the history is read, the row just stored included
StoreAndFetchHistory ==
    /\ execPc = "done"
    /\ ~historical.fetched
    /\ Len(run_rows) = Len(executions)
    /\ run_rows' = run_rows \o RunsOfExecution(result, attempts)
    /\ historical' =
          IF result.response_time_ms # NoTime
          THEN [fetched |-> TRUE,
                times |-> drop_first_if_equal(recent_times(run_rows', HISTORY_LIMIT),
                                              result.response_time_ms)]
          ELSE historical
    /\ UNCHANGED <<executions, earlierVars, flowVars, diffVars, perfVars, lifeVars,
                   otherHistVars>>

InitHist ==
    /\ client = TRUE
    /\ cfg = RunnerConfig(DEFAULT_MAX_RETRIES)
    /\ expected_status = 200
    /\ execPc = "done"
    /\ attempt = 1
    /\ result \in CurrentResults
    /\ last_result = result
    /\ attempts = <<result>>
    /\ sleeps = <<>>
    /\ \E n \in 0..MaxPriorRuns, pattern \in {"flat", "distinct", "gaps"} :
          /\ run_rows = PriorRows(n, pattern)
          /\ executions = [i \in 1..n |-> <<run_rows[i]>>]
    /\ HistIdle
    /\ OtherHistIdle
    /\ SyncIdle
    /\ PipeIdle
    /\ GateIdle
    /\ ReadIdle
    /\ AlertIdle
    /\ ScoreIdle
    /\ FlowIdle
    /\ DiffIdle
    /\ PerfIdle
    /\ LifeIdle

NextHist == StoreAndFetchHistory

SpecHist == InitHist /\ [][NextHist]_vars

\* the rows stored before the current run
PriorRuns == SubSeq(run_rows, 1, Len(executions))

\* C32: the history handed to the analyser is the up-to-20 most recent
\* non-null response times of the prior runs, newest first, without the
\* time of the run just stored: with 20 prior timed runs it has 20 samples.
C32_HistoryIsPriorWindow ==
    historical.fetched => historical.times = recent_times(PriorRuns, HISTORY_LIMIT)

\* ------------------------------------------------------------------------
\* SpecCalls: several coroutines inside LLMClient.analyse of the one client
\* at once; they interleave at the awaits of analyse (the provider call and
\* the backoff sleep), and the lifespan may close the client meanwhile
\* ------------------------------------------------------------------------
\* calls after which the callers make no further one
MaxGatewayCalls == 4

\* what the gateway specification's variables other than the client and its
\* metrics hold
gateLocalVars == <<args, gatePc, llm_attempt, prompt_built, last_error, llm_sleeps,
                   verdict, anomaly_record>>

\* what a step of a gateway call leaves alone
callsFrame == <<storeVars, pipeVars, syncVars, execVars, gateLocalVars, readVars,
                alertVars, scoreVars, flowVars, diffVars, perfVars, lifeVars, runVars,
                otherCallsVars>>

\* what an attempt of a concurrent call meets
CallOutcomes ==
    {o \in GatewayOutcomes :
        /\ o.raw = (CHOOSE r \in RawResponses : TRUE)
        /\ o.kind = "parsed" => o.tokens = 100}

\* where a caller stands
Calling(c, place, n) == [calls EXCEPT ![c] = [at |-> place, attempt |-> n]]

\* "self.metrics.failed_calls += 1" of an attempt that ends the call
count_failure_nowhere(m) == m
count_failure(m) == [m EXCEPT !.failed_calls = @ + 1]

\* LLMClient.analyse from its entry to its first await: None at once
\* without a client, else total_calls += 1 and the first _do_call
CallAnalyse(c) ==
    /\ calls[c].at \in {"idle", "returned_none", "returned_dict"}
    /\ metrics.total_calls < MaxGatewayCalls
    /\ IF ~llm_available
       THEN /\ calls' = Calling(c, "returned_none", 0)
            /\ UNCHANGED metrics
       ELSE /\ metrics' = [metrics EXCEPT !.total_calls = @ + 1]
            /\ calls' = Calling(c, "do_call", 1)
    /\ UNCHANGED <<llm_available, callsFrame>>

\* the await of _do_call resumes: the rest of the loop body, up to the
\* return or the await of asyncio.sleep
CallAttempt(c, outcome) ==
    /\ calls[c].at = "do_call"
    /\ CASE outcome.kind = "parsed" ->
              /\ metrics' = [metrics EXCEPT !.successful_calls = @ + 1,
                                            !.total_tokens_used = @ + outcome.tokens]
              /\ calls' = Calling(c, "returned_dict", calls[c].attempt)
         [] outcome.kind = "unparseable" ->
              /\ metrics' = count_failure(metrics)
              /\ calls' = Calling(c, "returned_none", calls[c].attempt)
         [] outcome.kind = "error" /\ calls[c].attempt < MAX_RETRIES
                                   /\ is_retryable(outcome.error) ->
              /\ metrics' = [metrics EXCEPT !.retried_calls = @ + 1]
              /\ calls' = Calling(c, "sleep", calls[c].attempt)
         [] OTHER ->
              /\ metrics' = count_failure(metrics)
              /\ calls' = Calling(c, "returned_none", calls[c].attempt)
    /\ UNCHANGED <<llm_available, callsFrame>>

\* asyncio.sleep(delay) resumes: "continue", and the next _do_call, whose
\* "assert self._client is not None" raises when the client was closed
\* meanwhile; str(AssertionError()) holds no retryable keyword
CallWake(c) ==
    /\ calls[c].at = "sleep"
    /\ IF llm_available
       THEN /\ calls' = Calling(c, "do_call", calls[c].attempt + 1)
            /\ UNCHANGED metrics
       ELSE /\ metrics' = count_failure(metrics)
            /\ calls' = Calling(c, "returned_none", calls[c].attempt + 1)
    /\ UNCHANGED <<llm_available, callsFrame>>

\* LLMClient.shutdown: the client is closed and "self._client = None"
GatewayShutdown ==
    /\ llm_available
    /\ llm_available' = FALSE
    /\ UNCHANGED <<metrics, calls, callsFrame>>

\* a client as LLMClient.startup left it, with or without an API key, and
\* no call made
InitCalls ==
    /\ llm_available \in BOOLEAN
    /\ metrics = ZeroMetrics
    /\ args = NoArgs
    /\ gatePc = "idle"
    /\ llm_attempt = 0
    /\ prompt_built = FALSE
    /\ last_error = NoError
    /\ llm_sleeps = <<>>
    /\ verdict = NoVerdict
    /\ anomaly_record = NoRecord
    /\ CallsIdle
    /\ OtherCallsIdle
    /\ PipeIdle
    /\ SyncIdle
    /\ ExecIdle
    /\ ReadIdle
    /\ AlertIdle
    /\ ScoreIdle
    /\ FlowIdle
    /\ DiffIdle
    /\ PerfIdle
    /\ LifeIdle
    /\ RunIdle

NextCalls ==
    \/ \E c \in Callers : CallAnalyse(c)
    \/ \E c \in Callers, outcome \in CallOutcomes : CallAttempt(c, outcome)
    \/ \E c \in Callers : CallWake(c)
    \/ GatewayShutdown

SpecCalls == InitCalls /\ [][NextCalls]_vars

\* ------------------------------------------------------------------------
\* Claims about the gateway's metrics
\* ------------------------------------------------------------------------
\* the callers between the total_calls += 1 of analyse and its return
CallsInFlight == {c \in Callers : calls[c].at \in {"do_call", "sleep"}}

\* the three counters the claim relates
Counted(m) == <<m.total_calls, m.successful_calls, m.failed_calls>>

\* what a step of caller c does to the counters
CallStepCounts(c) ==
    LET before == c \in CallsInFlight
        after == calls'[c].at \in {"do_call", "sleep"}
    IN /\ (~before /\ after) =>
            Counted(metrics') = <<metrics.total_calls + 1, metrics.successful_calls,
                                  metrics.failed_calls>>
       /\ (before /\ after) => Counted(metrics') = Counted(metrics)
       /\ (before /\ ~after) =>
            /\ metrics'.total_calls = metrics.total_calls
            /\ \/ /\ metrics'.successful_calls = metrics.successful_calls + 1
                  /\ metrics'.failed_calls = metrics.failed_calls
               \/ /\ metrics'.successful_calls = metrics.successful_calls
                  /\ metrics'.failed_calls = metrics.failed_calls + 1
       /\ (~before /\ ~after) => metrics' = metrics

\* C34: under every interleaving of concurrent analyse calls total_calls =
\* successful_calls + failed_calls + the number of calls in flight; a call
\* on a started gateway adds one to total_calls when it begins and one to
\* exactly one of successful_calls and failed_calls when it returns, and a
\* call on a gateway without a client changes no metric.
C34_MetricsConsistent ==
    /\ [](metrics.total_calls = metrics.successful_calls + metrics.failed_calls
                                    + Cardinality(CallsInFlight))
    /\ [][\A c \in Callers : calls'[c] # calls[c] => CallStepCounts(c)]_vars

\* two calls are in flight at once, one of them asleep before its retry,
\* after a call that succeeded and a call that failed
C34_Witness ==
    /\ llm_available
    /\ \E c, d \in Callers : calls[c].at = "do_call" /\ calls[d].at = "sleep"
    /\ metrics.successful_calls = 1
    /\ metrics.failed_calls = 1
    /\ metrics.total_calls = 4

\* ------------------------------------------------------------------------
\* SpecStop: MonitorScheduler.shutdown against the job ticks in flight and
\* against a sync_jobs call suspended at its await
\* ------------------------------------------------------------------------
\* shutdown() calls after which no further one is made
MaxShutdowns == 2

\* what a step of this specification leaves alone besides the scheduler
stopFrame == <<lifePc, clientVars, earlierVars, flowVars, diffVars, perfVars, runVars,
               otherStopVars>>

\* MonitorScheduler.startup
StopStartup ==
    /\ startup
    /\ UNCHANGED <<ticking, sync_call, shutdowns, stopFrame>>

\* MonitorScheduler.shutdown, whole: "if self._scheduler is None: return",
\* else scheduler.shutdown(wait=False), which waits for no running job
StopShutdown ==
    /\ shutdowns < MaxShutdowns
    /\ shutdowns' = shutdowns + 1
    /\ IF scheduler = "None" THEN UNCHANGED schedVars ELSE shutdown
    /\ UNCHANGED <<ticking, sync_call, stopFrame>>

\* the trigger of a job fires: the scheduler starts a tick of the job, one
\* instance per job at a time (max_instances = 1)
JobFires(e) ==
    /\ scheduler = "running"
    /\ e \in scheduled
    /\ e \notin ticking
    /\ ticking' = ticking \cup {e}
    /\ UNCHANGED <<schedVars, sync_call, shutdowns, stopFrame>>

\* a tick in flight runs to its end, or is abandoned
TickEnds(e) ==
    /\ e \in ticking
    /\ ticking' = ticking \ {e}
    /\ UNCHANGED <<schedVars, sync_call, shutdowns, stopFrame>>

\* sync_jobs up to its await: scheduler_disabled at once without a
\* scheduler, else the read of every endpoint
StopSyncBegins ==
    /\ sync_call.at # "reading"
    /\ IF scheduler = "None"
       THEN /\ sync_result' = "scheduler_disabled"
            /\ sync_call' = [at |-> "returned", seen |-> {}]
       ELSE /\ sync_call' = [at |-> "reading", seen |-> endpoint_rows]
            /\ UNCHANGED sync_result
    /\ UNCHANGED <<SCHEDULER_ENABLED, scheduler, scheduled, endpoint_rows, ticking,
                   shutdowns, stopFrame>>

\* sync_jobs after its await: "self._scheduler.get_jobs()" is an attribute
\* access on None, an AttributeError, when shutdown() ran meanwhile; else
\* the two loops and the summary
StopSyncResumes ==
    /\ sync_call.at = "reading"
    /\ IF scheduler = "None"
       THEN /\ sync_call' = [at |-> "raised", seen |-> {}]
            /\ UNCHANGED <<scheduled, sync_result>>
       ELSE /\ scheduled' = (scheduled \cap sync_call.seen) \cup (sync_call.seen \ scheduled)
            /\ sync_result' = "synced"
            /\ sync_call' = [at |-> "returned", seen |-> {}]
    /\ UNCHANGED <<SCHEDULER_ENABLED, scheduler, endpoint_rows, ticking, shutdowns,
                   stopFrame>>

\* a process whose scheduler was not started yet, over some endpoint rows
InitStop ==
    /\ lifePc = 0
    /\ NoClients
    /\ configured = {}
    /\ SCHEDULER_ENABLED \in BOOLEAN
    /\ NoScheduler
    /\ endpoint_rows \in SUBSET SyncEndpointIds
    /\ StopIdle
    /\ OtherStopIdle
    /\ PipeIdle
    /\ SyncIdle
    /\ ExecIdle
    /\ GateIdle
    /\ ReadIdle
    /\ AlertIdle
    /\ ScoreIdle
    /\ FlowIdle
    /\ DiffIdle
    /\ PerfIdle
    /\ RunIdle

NextStop ==
    \/ StopStartup
    \/ StopShutdown
    \/ \E e \in SyncEndpointIds : JobFires(e)
    \/ \E e \in SyncEndpointIds : TickEnds(e)
    \/ StopSyncBegins
    \/ StopSyncResumes

SpecStop == InitStop /\ [][NextStop]_vars

C36_SyncSurvivesShutdown ==
    sync_call.at # "raised"

\* ------------------------------------------------------------------------
\* Authentication: AuthService.login and AuthService.refresh of one user,
\* called by concurrent requests, each with its own AuthRepository session
\* ------------------------------------------------------------------------
\* settings.MAX_LOGIN_ATTEMPTS
MAX_LOGIN_ATTEMPTS == 5

\* failed attempts and refresh tokens after which no further call is made
MaxFailedAttempts == 7
MaxTokens == 3

\* a RefreshToken row as create_refresh_token adds it; exchanges counts the
\* refresh calls that returned a new pair for it
RefreshToken == [is_revoked |-> FALSE, exchanges |-> 0]

\* what a step of login or refresh leaves alone
authFrame == <<uptoRunVars, otherAuthVars>>

\* user.failed_login_attempts as the session's User object holds it after
\* "update(User).values(failed_login_attempts=User.failed_login_attempts + 1)":
\* the value loaded, or that value plus one when the session synchronises
\* its objects with the UPDATE
in_session_attempts(loaded) == IF synchronize_session THEN loaded + 1 ELSE loaded

\* "new_count = user.failed_login_attempts + 1"
new_count(loaded) == in_session_attempts(loaded) + 1

\* login, steps 1 to 4 up to the first write: the organisation and the user
\* are found, the request is rejected (403) while locked_until is in the
\* future, else the password is verified
LoginBegins(s, correct) ==
    /\ logins[s].at # "verified"
    /\ IF correct THEN Len(refresh_tokens) < MaxTokens
       ELSE user_row.failed_login_attempts < MaxFailedAttempts
    /\ logins' = [logins EXCEPT ![s] =
          IF user_row.locked_until = "future"
          THEN [at |-> "locked", loaded |-> user_row.failed_login_attempts,
                correct |-> correct]
          ELSE [at |-> "verified", loaded |-> user_row.failed_login_attempts,
                correct |-> correct]]
    /\ UNCHANGED <<synchronize_session, user_row, refresh_tokens, refreshes, authFrame>>

\* login, step 4 after a wrong password: increment_failed_attempts, lock_user
\* when new_count >= MAX_LOGIN_ATTEMPTS, 401
LoginWrongPassword(s) ==
    /\ logins[s].at = "verified"
    /\ ~logins[s].correct
    /\ user_row' =
          [failed_login_attempts |-> user_row.failed_login_attempts + 1,
           locked_until |-> IF new_count(logins[s].loaded) >= MAX_LOGIN_ATTEMPTS
                            THEN "future" ELSE user_row.locked_until]
    /\ logins' = [logins EXCEPT ![s].at = "invalid"]
    /\ UNCHANGED <<synchronize_session, refresh_tokens, refreshes, authFrame>>

\* login, step 5: reset_failed_attempts, the access token, a new refresh
\* token row
LoginSucceeds(s) ==
    /\ logins[s].at = "verified"
    /\ logins[s].correct
    /\ user_row' = [failed_login_attempts |-> 0, locked_until |-> "None"]
    /\ refresh_tokens' = Append(refresh_tokens, RefreshToken)
    /\ logins' = [logins EXCEPT ![s].at = "tokens"]
    /\ UNCHANGED <<synchronize_session, refreshes, authFrame>>

\* LOCKOUT_MINUTES pass: locked_until is no longer in the future
LockExpires ==
    /\ user_row.locked_until = "future"
    /\ user_row' = [user_row EXCEPT !.locked_until = "past"]
    /\ UNCHANGED <<synchronize_session, logins, refresh_tokens, refreshes, authFrame>>

\* a user without failed attempts; whether the session synchronises its
\* objects with an UPDATE is a property of the build
InitLogin ==
    /\ synchronize_session \in BOOLEAN
    /\ user_row = NewUser
    /\ logins = [s \in Sessions |-> NoLogin]
    /\ refresh_tokens = <<>>
    /\ refreshes = [s \in Sessions |-> NoRefresh]
    /\ BaseIdle
    /\ OtherAuthIdle

NextLogin ==
    \/ \E s \in Sessions, correct \in BOOLEAN : LoginBegins(s, correct)
    \/ \E s \in Sessions : LoginWrongPassword(s)
    \/ \E s \in Sessions : LoginSucceeds(s)
    \/ LockExpires

SpecLogin == InitLogin /\ [][NextLogin]_vars

\* C38: with no login in progress the user carries a lock exactly when the
\* wrong-password attempts since the last successful login have reached
\* MAX_LOGIN_ATTEMPTS (a successful login having reset the counter to 0 and
\* cleared the lock).
C38_LockedExactlyAtMaxAttempts ==
    (\A s \in Sessions : logins[s].at # "verified") =>
        (user_row.locked_until # "None"
            <=> user_row.failed_login_attempts >= MAX_LOGIN_ATTEMPTS)

\* refresh up to its writes: the stored token is looked up by hash; unknown
\* is a 401; revoked is a 401 after revoke_all_user_tokens; else the user is
\* loaded and the token is about to be rotated
RefreshBegins(s, t) ==
    /\ refreshes[s].at # "rotating"
    /\ Len(refresh_tokens) + Cardinality({r \in Sessions : refreshes[r].at = "rotating"})
          < MaxTokens
    /\ IF t \notin DOMAIN refresh_tokens
       THEN /\ refreshes' = [refreshes EXCEPT ![s] = [at |-> "invalid", stored |-> 0]]
            /\ UNCHANGED refresh_tokens
       ELSE IF refresh_tokens[t].is_revoked
       THEN /\ refresh_tokens' =
                  [i \in DOMAIN refresh_tokens |->
                      [refresh_tokens[i] EXCEPT !.is_revoked = TRUE]]
            /\ refreshes' = [refreshes EXCEPT ![s] = [at |-> "invalid", stored |-> t]]
       ELSE /\ refreshes' = [refreshes EXCEPT ![s] = [at |-> "rotating", stored |-> t]]
            /\ UNCHANGED refresh_tokens
    /\ UNCHANGED <<synchronize_session, user_row, logins, authFrame>>

\* "Rotate: revoke old, create new": revoke_refresh_token(stored.id),
\* create_refresh_token, and the new pair is returned
RefreshRotates(s) ==
    /\ refreshes[s].at = "rotating"
    /\ refresh_tokens' =
          Append([refresh_tokens EXCEPT ![refreshes[s].stored] =
                      [is_revoked |-> TRUE, exchanges |-> @.exchanges + 1]],
                 RefreshToken)
    /\ refreshes' = [refreshes EXCEPT ![s].at = "tokens"]
    /\ UNCHANGED <<synchronize_session, user_row, logins, authFrame>>

\* a user who has logged in once and holds the refresh token of that login
InitRefresh ==
    /\ synchronize_session \in BOOLEAN
    /\ user_row = NewUser
    /\ logins = [s \in Sessions |-> NoLogin]
    /\ refresh_tokens = <<RefreshToken>>
    /\ refreshes = [s \in Sessions |-> NoRefresh]
    /\ BaseIdle
    /\ OtherAuthIdle

NextRefresh ==
    \/ \E s \in Sessions, t \in 0..MaxTokens : RefreshBegins(s, t)
    \/ \E s \in Sessions : RefreshRotates(s)

SpecRefresh == InitRefresh /\ [][NextRefresh]_vars

\* C37: a refresh token is exchanged for a new pair at most once, whether
\* the refresh calls that present it follow one another or overlap.
C37_TokenExchangedAtMostOnce ==
    \A t \in DOMAIN refresh_tokens : refresh_tokens[t].exchanges <= 1

\* ------------------------------------------------------------------------
\* SpecRate: steps 4 to 9 of RunnerService.execute_endpoint, as far as the
\* failure rate goes: the run is stored, get_failure_rate is read, and the
\* value is handed to the classifier and to the risk scorer
\* ------------------------------------------------------------------------
\* runs of the endpoint stored before the current one
MaxRatedRuns == 3

\* what a step after the store leaves alone
rateFrame == <<runVars, earlierVars, flowVars, diffVars, perfVars, lifeVars, otherRateVars>>

\* the rows of n earlier runs, the i-th failed when i is in failed
RatedRows(n, failed) ==
    [i \in 1..n |->
        IF i \in failed
        THEN ApiRun(RunResult(500, 40, "object", FALSE, None))
        ELSE ApiRun(RunResult(200, 40, "object", TRUE, None))]

\* the rows that are failures
failures_of(rows) == Len(SelectSeq(rows, LAMBDA row : ~row.is_success))

\* ApiRunRepository.get_failure_rate, in hundredths of a percent:
\* "if not total: return 0.0", else round(failures / total * 100, 2)
get_failure_rate_before(rows) ==
    IF Len(rows) <= 1 THEN 0
    ELSE round_div(failures_of(SubSeq(rows, 1, Len(rows) - 1)) * 10000, Len(rows) - 1)
get_failure_rate(rows) ==
    IF Len(rows) = 0 THEN 0 ELSE round_div(failures_of(rows) * 10000, Len(rows))

\* step 4: "saved_run = await self._run_repo.create(run)"
RateStoreRun ==
    /\ execPc = "done"
    /\ handoff.at = "executed"
    /\ run_rows' = run_rows \o RunsOfExecution(result, attempts)
    /\ handoff' = [handoff EXCEPT !.at = "stored"]
    /\ UNCHANGED <<executions, earlierVars, flowVars, diffVars, perfVars, lifeVars,
                   otherRateVars>>

\* step 6: "failure_rate = await self._run_repo.get_failure_rate(endpoint.id)"
RateRead ==
    /\ handoff.at = "stored"
    /\ handoff' = [handoff EXCEPT !.at = "read",
                                  !.failure_rate = get_failure_rate(run_rows)]
    /\ UNCHANGED rateFrame

\* step 7: anomaly_engine.analyse(..., failure_rate_percent=failure_rate)
RateClassify ==
    /\ handoff.at = "read"
    /\ handoff' = [handoff EXCEPT !.at = "classified",
                                  !.classifier = handoff.failure_rate]
    /\ UNCHANGED rateFrame

\* step 9: risk_engine.score(..., failure_rate_percent=failure_rate)
RateScore ==
    /\ handoff.at = "classified"
    /\ handoff' = [handoff EXCEPT !.at = "scored",
                                  !.scorer = handoff.failure_rate]
    /\ UNCHANGED rateFrame

\* the executor has returned the result of the current run of an endpoint
\* that has some earlier runs, or none
InitRate ==
    /\ client = TRUE
    /\ cfg = RunnerConfig(DEFAULT_MAX_RETRIES)
    /\ expected_status = 200
    /\ execPc = "done"
    /\ attempt = 1
    /\ result \in CurrentResults
    /\ last_result = result
    /\ attempts = <<result>>
    /\ sleeps = <<>>
    /\ \E n \in 0..MaxRatedRuns : \E failed \in SUBSET (1..n) :
          /\ run_rows = RatedRows(n, failed)
          /\ executions = [i \in 1..n |-> <<run_rows[i]>>]
    /\ handoff = [at |-> "executed", failure_rate |-> 0, classifier |-> 0, scorer |-> 0]
    /\ OtherRateIdle
    /\ SyncIdle
    /\ PipeIdle
    /\ GateIdle
    /\ ReadIdle
    /\ AlertIdle
    /\ ScoreIdle
    /\ FlowIdle
    /\ DiffIdle
    /\ PerfIdle
    /\ LifeIdle

NextRate ==
    \/ RateStoreRun
    \/ RateRead
    \/ RateClassify
    \/ RateScore

SpecRate == InitRate /\ [][NextRate]_vars

\* failures among the earlier runs and the current one, over their number,
\* in hundredths of a percent
RateWithCurrentRun ==
    LET prior == SubSeq(run_rows, 1, Len(executions))
        failed == failures_of(prior) + (IF result.is_success THEN 0 ELSE 1)
    IN  round_div(failed * 10000, Len(prior) + 1)

\* C39: the failure rate read for a run counts that run; for the first run
\* of an endpoint it is 100 when the run failed and 0 when it succeeded;
\* the classifier and the risk scorer of the run get that same value.
C39_FailureRateCountsCurrentRun ==
    /\ handoff.at \in {"read", "classified", "scored"} =>
          /\ handoff.failure_rate = RateWithCurrentRun
          /\ Len(executions) = 0 =>
                handoff.failure_rate = (IF result.is_success THEN 0 ELSE 10000)
    /\ handoff.at \in {"classified", "scored"} =>
          handoff.classifier = handoff.failure_rate
    /\ handoff.at = "scored" => handoff.scorer = handoff.classifier

\* the first run of an endpoint failed, and 100 percent went to the
\* classifier and to the scorer
C39_Witness ==
    /\ handoff.at = "scored"
    /\ Len(executions) = 0
    /\ ~result.is_success
    /\ handoff.classifier = 10000
    /\ handoff.scorer = 10000

====
